---- MODULE Spec2Model ----
(***************************************************************************)
(* A model of the Markdown compiler of this repository.                    *)
(*                                                                         *)
(* Two pipelines live in the sources:                                      *)
(*   - the functional one: lexer -> parseTokensToAST (-> compileAstToHtml),*)
(*     with the character-level inline parser parseInline;                 *)
(*   - the class one used by main.ts: Lexer -> Parser -> Translator,       *)
(*     re-run by render() on every edit.                                   *)
(*                                                                         *)
(* A string is a sequence of one-character strings; "\n" separates lines.  *)
(* Cursors (i, j, currentIndex) are 0-based as in the code; s[k+1] is the  *)
(* character the code calls s[k].                                          *)
(***************************************************************************)
EXTENDS Integers, Sequences, FiniteSets, TLC

VARIABLES
    input,          \* lexer: the argument string
    lines,          \* lexer: const lines
    i,              \* lexer: the line cursor i
    tokens,         \* lexer: const tokens
    ast,            \* the result of parseTokensToAST(tokens)
    root,           \* the element compileAstToHtml(ast) returns
    pc,             \* position of the functional pipeline
    src,            \* parseInline: the argument string
    pos,            \* parseInline: the character cursor i
    out,            \* parseInline: const out
    inl,            \* parseInline: the returned list
    ipc,            \* position of parseInline
    clines,         \* Lexer.lines
    currentIndex,   \* Lexer.currentIndex
    ctokens,        \* Lexer.tokenize: const tokens
    spans,          \* history: the line indices each pushed token consumed
    handed,         \* the list Lexer.tokenize() returns
    again,          \* the list a second tokenize() of the same Lexer returns
    cpc,            \* position of Lexer.tokenize
    editor,         \* main.ts: the textarea's value
    preview,        \* main.ts: the children of the preview element
    renders,        \* history: number of render() calls so far
    tnodes,         \* Translator.ast
    tdone,          \* translate: how many nodes the loop has taken
    tloc,           \* translate: container (the heap), currentList, currentListLevel, listStack
    lis,            \* history: the li made for each LIST_ITEM node taken
    container,      \* the element translate() returns
    tpc             \* position of translate

vars == <<input, lines, i, tokens, ast, root, pc, src, pos, out, inl, ipc,
          clines, currentIndex, ctokens, spans, handed, again, cpc,
          editor, preview, renders, tnodes, tdone, tloc, lis, container, tpc>>

fnVars == <<input, lines, i, tokens, ast, root, pc>>
inlVars == <<src, pos, out, inl, ipc>>
clsVars == <<clines, currentIndex, ctokens, spans, handed, again, cpc>>
domVars == <<editor, preview, renders>>
trVars == <<tnodes, tdone, tloc, lis, container, tpc>>

-----------------------------------------------------------------------------
(* Strings *)

NL == "\n"
WS == {" ", "\t"}
Digit == {"0", "1", "2", "3", "4", "5", "6", "7", "8", "9"}
\* the backtick character (a string literal cannot hold it)
BT == "BACKTICK"

\* JavaScript's undefined, for an optional string field
Undefined == <<"undefined">>

Min(S) == CHOOSE x \in S : \A y \in S : x <= y

Take(s, n) == SubSeq(s, 1, n)
Drop(s, n) == SubSeq(s, n + 1, Len(s))

\* s.startsWith(p, k), k 0-based
StartsWithAt(s, p, k) ==
    /\ k + Len(p) <= Len(s)
    /\ SubSeq(s, k + 1, k + Len(p)) = p

StartsWith(s, p) == StartsWithAt(s, p, 0)

\* number of leading characters of s that are in S
RECURSIVE CountLeading(_, _)
CountLeading(s, S) ==
    IF s # <<>> /\ Head(s) \in S THEN 1 + CountLeading(Tail(s), S) ELSE 0

\* number of leading characters of s that are not in S
RECURSIVE CountLeadingNot(_, _)
CountLeadingNot(s, S) ==
    IF s # <<>> /\ Head(s) \notin S THEN 1 + CountLeadingNot(Tail(s), S) ELSE 0

RECURSIVE CountTrailing(_, _)
CountTrailing(s, S) ==
    IF s # <<>> /\ s[Len(s)] \in S
    THEN 1 + CountTrailing(Take(s, Len(s) - 1), S)
    ELSE 0

\* s.trim()
Trim(s) ==
    LET a == CountLeading(s, WS)
    IN  IF a = Len(s) THEN <<>>
        ELSE SubSeq(s, a + 1, Len(s) - CountTrailing(s, WS))

\* s.split(sep) for a one-character sep: "" gives [""]
RECURSIVE Split(_, _)
Split(s, sep) ==
    LET n == CountLeadingNot(s, {sep})
    IN  IF n = Len(s) THEN <<s>>
        ELSE <<Take(s, n)>> \o Split(Drop(s, n + 1), sep)

\* ls.join(sep)
RECURSIVE Join(_, _)
Join(ls, sep) ==
    IF ls = <<>> THEN <<>>
    ELSE IF Len(ls) = 1 THEN ls[1]
    ELSE ls[1] \o <<sep>> \o Join(Tail(ls), sep)

\* input.replace(/\r\n/g, "\n")
RECURSIVE NormalizeNewlines(_)
NormalizeNewlines(s) ==
    IF s = <<>> THEN <<>>
    ELSE IF StartsWith(s, <<"\r", NL>>) THEN <<NL>> \o NormalizeNewlines(Drop(s, 2))
    ELSE <<Head(s)>> \o NormalizeNewlines(Tail(s))

-----------------------------------------------------------------------------
(* JavaScript numbers that may be halves: the value whole + half/2 *)

Num(n) == [whole |-> n, half |-> 0]

\* n / 2 in floating point, exact for the small n of an indent
HalfOf(n) == [whole |-> n \div 2, half |-> n % 2]

\* Math.floor(n / 2)
FloorHalfOf(n) == n \div 2

NoNum == [whole |-> -1, half |-> 0]

IsInteger(x) == x.half = 0

-----------------------------------------------------------------------------
(* The line patterns of lexer (src/src/markdown/lexer.ts, lines 23-124).   *)
(* The characters of a line never include a line terminator.               *)

\* /^\s*$/
IsBlank(raw) == CountLeading(raw, WS) = Len(raw)

\* /^BT BT BT/, three backticks at the start
StartsFence(raw) == StartsWith(raw, <<BT, BT, BT>>)

\* raw.match(/^BT BT BT(\S*)\s*$/)
FenceMatch(raw) ==
    /\ StartsFence(raw)
    /\ LET rest == Drop(raw, 3)
       IN  IsBlank(Drop(rest, CountLeadingNot(rest, WS)))

\* fenceMatch[1] || undefined
FenceLang(raw) ==
    LET rest == Drop(raw, 3)
        g == Take(rest, CountLeadingNot(rest, WS))
    IN  IF g = <<>> THEN Undefined ELSE g

\* /^(#{1,6})\s+/ and raw.match(/^(#{1,6})\s+(.*)$/)
HeadingMatch(raw) ==
    LET n == CountLeading(raw, {"#"})
    IN  /\ n >= 1
        /\ n <= 6
        /\ Len(raw) > n
        /\ raw[n + 1] \in WS

HeadingDepth(raw) == CountLeading(raw, {"#"})

HeadingText(raw) ==
    LET n == CountLeading(raw, {"#"})
        rest == Drop(raw, n)
    IN  Drop(rest, CountLeading(rest, WS))

\* /^(\*\s*\*\s*\*|-{3,}|_{3,})\s*$/
HRMatch(raw) ==
    \/ /\ raw # <<>>
       /\ Head(raw) = "*"
       /\ LET r1 == Drop(raw, 1 + CountLeading(Tail(raw), WS))
          IN  /\ r1 # <<>>
              /\ Head(r1) = "*"
              /\ LET r2 == Drop(r1, 1 + CountLeading(Tail(r1), WS))
                 IN  /\ r2 # <<>>
                     /\ Head(r2) = "*"
                     /\ IsBlank(Tail(r2))
    \/ /\ CountLeading(raw, {"-"}) >= 3
       /\ IsBlank(Drop(raw, CountLeading(raw, {"-"})))
    \/ /\ CountLeading(raw, {"_"}) >= 3
       /\ IsBlank(Drop(raw, CountLeading(raw, {"_"})))

\* raw.match(/^\s*> ?(.*)$/)
BqMatch(raw) ==
    LET k == CountLeading(raw, WS)
    IN  Len(raw) > k /\ raw[k + 1] = ">"

\* bq[1] had the pattern been /^\s*>+ ?(.*)$/: every leading ">" is dropped
BqTextDropsAllMarkers(raw) ==
    LET r0 == Drop(raw, CountLeading(raw, WS))
        rest == Drop(r0, CountLeading(r0, {">"}))
    IN  IF rest # <<>> /\ Head(rest) = " " THEN Tail(rest) ELSE rest

\* bq[1]
BqText(raw) ==
    LET rest == Drop(raw, CountLeading(raw, WS) + 1)
    IN  IF rest # <<>> /\ Head(rest) = " " THEN Tail(rest) ELSE rest

\* /^>\s?/
StartsQuote(raw) == raw # <<>> /\ Head(raw) = ">"

\* raw.match(/^(\s*)([-+*])\s+(.*)$/) and /^(\s*)([-+*])\s+/
UlMatch(raw) ==
    LET k == CountLeading(raw, WS)
    IN  /\ Len(raw) >= k + 2
        /\ raw[k + 1] \in {"-", "+", "*"}
        /\ raw[k + 2] \in WS

\* ul[1].length and ol[1].length
Indent(raw) == CountLeading(raw, WS)

\* ul[2]
UlBullet(raw) == <<raw[Indent(raw) + 1]>>

\* ul[3]
UlText(raw) ==
    LET rest == Drop(raw, Indent(raw) + 1)
    IN  Drop(rest, CountLeading(rest, WS))

\* raw.match(/^(\s*)(\d+)\.\s+(.*)$/) and /^(\s*)(\d+)\.\s+/
OlMatch(raw) ==
    LET k == CountLeading(raw, WS)
        d == CountLeading(Drop(raw, k), Digit)
    IN  /\ d >= 1
        /\ Len(raw) >= k + d + 2
        /\ raw[k + d + 1] = "."
        /\ raw[k + d + 2] \in WS

\* ol[3]
OlText(raw) ==
    LET k == CountLeading(raw, WS)
        d == CountLeading(Drop(raw, k), Digit)
        rest == Drop(raw, k + d + 1)
    IN  Drop(rest, CountLeading(rest, WS))

\* the rule of lexer that the line at the cursor falls under (first match wins)
RuleOf(raw) ==
    IF IsBlank(raw) THEN "BLANK"
    ELSE IF FenceMatch(raw) THEN "CODE_FENCE"
    ELSE IF HeadingMatch(raw) THEN "HEADING"
    ELSE IF HRMatch(raw) THEN "HR"
    ELSE IF BqMatch(raw) THEN "BLOCKQUOTE"
    ELSE IF UlMatch(raw) THEN "UL_ITEM"
    ELSE IF OlMatch(raw) THEN "OL_ITEM"
    ELSE "PARAGRAPH"

\* the condition of the paragraph loop on lines[j], negated
ParagraphStops(l) ==
    \/ IsBlank(l)
    \/ HeadingMatch(l)
    \/ StartsFence(l)
    \/ UlMatch(l)
    \/ OlMatch(l)
    \/ StartsQuote(l)
    \/ HRMatch(l)

Token(type, raw, line, depth, lang, bullet) ==
    [type |-> type, raw |-> raw, line |-> line, depth |-> depth,
     lang |-> lang, bullet |-> bullet]

\* the fence loop had it stopped only at a line that is a fence start itself
RECURSIVE ScanFenceToFenceStart(_, _)
ScanFenceToFenceStart(ls, j) ==
    IF j < Len(ls) /\ ~FenceMatch(ls[j + 1]) THEN ScanFenceToFenceStart(ls, j + 1) ELSE j

\* the j at which a loop "while (j < ls.length && !stop(ls[j])) j++" started
\* at j ends
RECURSIVE ScanFence(_, _)
ScanFence(ls, j) ==
    IF j < Len(ls) /\ ~StartsFence(ls[j + 1]) THEN ScanFence(ls, j + 1) ELSE j

RECURSIVE ScanParagraph(_, _)
ScanParagraph(ls, j) ==
    IF j < Len(ls) /\ ~ParagraphStops(ls[j + 1]) THEN ScanParagraph(ls, j + 1) ELSE j

\* one iteration of the main loop of lexer at cursor k: the token pushed and
\* the new value of the cursor
LexStep(ls, k) ==
    LET raw == ls[k + 1]
        rule == RuleOf(raw)
    IN  CASE rule = "BLANK" ->
                [tok |-> Token("BLANK", raw, k, NoNum, Undefined, Undefined),
                 next |-> k + 1]
          [] rule = "CODE_FENCE" ->
                LET j == ScanFence(ls, k + 1)
                    t == Token("CODE_FENCE", Join(SubSeq(ls, k + 2, j), NL), k,
                               NoNum, FenceLang(raw), Undefined)
                IN  IF j < Len(ls) /\ StartsFence(ls[j + 1])
                    THEN [tok |-> t, next |-> j + 1]
                    ELSE [tok |-> t, next |-> j]
          [] rule = "HEADING" ->
                [tok |-> Token("HEADING", HeadingText(raw), k,
                               Num(HeadingDepth(raw)), Undefined, Undefined),
                 next |-> k + 1]
          [] rule = "HR" ->
                [tok |-> Token("HR", raw, k, NoNum, Undefined, Undefined),
                 next |-> k + 1]
          [] rule = "BLOCKQUOTE" ->
                [tok |-> Token("BLOCKQUOTE", BqText(raw), k, NoNum, Undefined, Undefined),
                 next |-> k + 1]
          [] rule = "UL_ITEM" ->
                [tok |-> Token("UL_ITEM", UlText(raw), k, HalfOf(Indent(raw)),
                               Undefined, UlBullet(raw)),
                 next |-> k + 1]
          [] rule = "OL_ITEM" ->
                [tok |-> Token("OL_ITEM", OlText(raw), k, HalfOf(Indent(raw)),
                               Undefined, Undefined),
                 next |-> k + 1]
          [] OTHER ->
                LET j == ScanParagraph(ls, k)
                IN  [tok |-> Token("PARAGRAPH", Join(SubSeq(ls, k + 1, j), NL), k,
                                   NoNum, Undefined, Undefined),
                     next |-> j]

\* lexer's first statement
LexLines(text) == Split(NormalizeNewlines(text), NL)

-----------------------------------------------------------------------------
(* parseInline (src/src/markdown/lexer.ts, lines 140-269) *)

\* an InlineNode; an IMAGE keeps its address in the field src of the code,
\* which is the field href here
INode(type, value, children, href, alt) ==
    [type |-> type, value |-> value, children |-> children, href |-> href,
     alt |-> alt]

TextNode(v) == INode("TEXT", v, <<>>, Undefined, Undefined)

\* peek() === c with the cursor at k
PeekIs(s, k, c) == k < Len(s) /\ s[k + 1] = c

\* the cursor after readUntil(p) started at k, for a string pattern p: the
\* first place at or after k where p starts, or the end of s
ReadUntil(s, p, k) ==
    LET c == {m \in k..(Len(s) - Len(p)) : StartsWithAt(s, p, m)}
    IN  IF c = {} THEN Len(s) ELSE Min(c)

\* the pattern of the text fallback, /(!\[|\[|BT|\*\*|__|\*|_|!|\))/
Specials ==
    {<<"!", "[">>, <<"[">>, <<BT>>, <<"*", "*">>, <<"_", "_">>, <<"*">>,
     <<"_">>, <<"!">>, <<")">>}

\* pattern.test(src.slice(k)): the pattern is not anchored, so it matches when
\* one of its alternatives occurs anywhere in the rest
SpecialAhead(s, k) ==
    \E m \in k..(Len(s) - 1) : \E p \in Specials : StartsWithAt(s, p, m)

\* the cursor after readUntil(/.../) started at k
ReadUntilSpecial(s, k) == IF SpecialAhead(s, k) THEN k ELSE Len(s)

\* mergeAdjacentTextNodes
RECURSIVE MergeFrom(_, _)
MergeFrom(acc, nodes) ==
    IF nodes = <<>> THEN acc
    ELSE LET n == Head(nodes)
         IN  IF n.type = "TEXT" /\ acc # <<>> /\ acc[Len(acc)].type = "TEXT"
             THEN MergeFrom(
                    [acc EXCEPT ![Len(acc)].value = @ \o n.value], Tail(nodes))
             ELSE MergeFrom(Append(acc, n), Tail(nodes))

\* mergeAdjacentTextNodes had it returned its argument
MergeNothing(nodes) == nodes

mergeAdjacentTextNodes(nodes) == MergeFrom(<<>>, nodes)

\* the branch of the main loop taken with the cursor at k
InlineRule(s, k) ==
    IF StartsWithAt(s, <<"!", "[">>, k) THEN "IMAGE"
    ELSE IF PeekIs(s, k, "[") THEN "LINK"
    ELSE IF PeekIs(s, k, BT) THEN "CODE"
    ELSE IF StartsWithAt(s, <<"*", "*">>, k) \/ StartsWithAt(s, <<"_", "_">>, k)
         THEN "STRONG"
    ELSE IF PeekIs(s, k, "*") \/ PeekIs(s, k, "_") THEN "EM"
    ELSE "TEXT"

RECURSIVE parseInline(_)

\* "[" text "]" then maybe "(" href ")", the cursor at k0 after the opening
\* "![" or "[": what both bracket branches share
BracketStep(s, k0, isImage) ==
    LET a == ReadUntil(s, <<"]">>, k0)
        text == SubSeq(s, k0 + 1, a)
        k1 == IF PeekIs(s, a, "]") THEN a + 1 ELSE a
    IN  IF PeekIs(s, k1, "(")
        THEN LET h == ReadUntil(s, <<")">>, k1 + 1)
                 href == SubSeq(s, k1 + 2, h)
                 k2 == IF PeekIs(s, h, ")") THEN h + 1 ELSE h
             IN  [node |-> IF isImage
                           THEN INode("IMAGE", <<>>, <<>>, Trim(href), text)
                           ELSE INode("LINK", <<>>, parseInline(text), Trim(href),
                                      Undefined),
                  next |-> k2]
        ELSE [node |-> TextNode((IF isImage THEN <<"!", "[">> ELSE <<"[">>)
                                \o text
                                \o (IF PeekIs(s, k1, "]") THEN <<"]">> ELSE <<>>)),
              next |-> k1]

\* one iteration of the main loop had it been only the readUntil of the text
\* fallback, without the consume(1) for an empty result
InlineStepNoFallback(s, k) ==
    [node |-> TextNode(SubSeq(s, k + 1, ReadUntilSpecial(s, k))),
     next |-> ReadUntilSpecial(s, k)]

\* one iteration of the main loop of parseInline with the cursor at k: the
\* node pushed and the new cursor
InlineStep(s, k) ==
    LET rule == InlineRule(s, k)
    IN  CASE rule = "IMAGE" -> BracketStep(s, k + 2, TRUE)
          [] rule = "LINK" -> BracketStep(s, k + 1, FALSE)
          [] rule = "CODE" ->
                LET e == ReadUntil(s, <<BT>>, k + 1)
                IN  [node |-> INode("CODE", SubSeq(s, k + 2, e), <<>>,
                                    Undefined, Undefined),
                     next |-> IF PeekIs(s, e, BT) THEN e + 1 ELSE e]
          [] rule = "STRONG" ->
                LET delim == SubSeq(s, k + 1, k + 2)
                    e == ReadUntil(s, delim, k + 2)
                IN  [node |-> INode("STRONG", <<>>,
                                    parseInline(SubSeq(s, k + 3, e)),
                                    Undefined, Undefined),
                     next |-> IF StartsWithAt(s, delim, e) THEN e + 2 ELSE e]
          [] rule = "EM" ->
                LET delim == s[k + 1]
                    e == ReadUntil(s, <<delim>>, k + 1)
                IN  [node |-> INode("EM", <<>>, parseInline(SubSeq(s, k + 2, e)),
                                    Undefined, Undefined),
                     next |-> IF PeekIs(s, e, delim) THEN e + 1 ELSE e]
          [] OTHER ->
                LET e == ReadUntilSpecial(s, k)
                IN  IF e > k
                    THEN [node |-> TextNode(SubSeq(s, k + 1, e)), next |-> e]
                    ELSE [node |-> TextNode(<<s[k + 1]>>), next |-> k + 1]

\* the strings the iteration with the cursor at k passes to parseInline: the
\* text of a link, the inner of a strong or an emphasis span
RecursiveCalls(s, k) ==
    LET rule == InlineRule(s, k)
    IN  CASE rule = "LINK" ->
                LET a == ReadUntil(s, <<"]">>, k + 1)
                    k1 == IF PeekIs(s, a, "]") THEN a + 1 ELSE a
                IN  IF PeekIs(s, k1, "(") THEN {SubSeq(s, k + 2, a)} ELSE {}
          [] rule = "STRONG" ->
                {SubSeq(s, k + 3, ReadUntil(s, SubSeq(s, k + 1, k + 2), k + 2))}
          [] rule = "EM" ->
                {SubSeq(s, k + 2, ReadUntil(s, <<s[k + 1]>>, k + 1))}
          [] OTHER -> {}

\* the list out when the main loop, entered with the cursor at k, ends
RECURSIVE InlineLoop(_, _)
InlineLoop(s, k) ==
    IF k >= Len(s) THEN <<>>
    ELSE LET r == InlineStep(s, k)
         IN  <<r.node>> \o InlineLoop(s, r.next)

parseInline(s) == mergeAdjacentTextNodes(InlineLoop(s, 0))

-----------------------------------------------------------------------------
(* lexer as a function, and parseTokensToAST (src/unnamed/part_001) *)

\* the outcome of a call: it returns value, or it never returns
Returns(v) == [returns |-> TRUE, value |-> v]
NeverReturns == [returns |-> FALSE, value |-> <<>>]

\* a call that does first, then rest: it returns when both do
Then(first, rest) ==
    IF first.returns /\ rest.returns THEN Returns(first.value \o rest.value)
    ELSE NeverReturns

\* the main loop of lexer from cursor k. An iteration that leaves the cursor
\* where it was repeats forever (the loop has no other state to leave by), so
\* the call never returns.
RECURSIVE LexFrom(_, _)
LexFrom(ls, k) ==
    IF k >= Len(ls) THEN Returns(<<>>)
    ELSE IF LexStep(ls, k).next = k THEN NeverReturns
    ELSE Then(Returns(<<LexStep(ls, k).tok>>), LexFrom(ls, LexStep(ls, k).next))

lexer(text) == LexFrom(LexLines(text), 0)

BNode(type, level, children, items, lang, code) ==
    [type |-> type, level |-> level, children |-> children, items |-> items,
     lang |-> lang, code |-> code]

ParagraphNode(raw) == BNode("PARAGRAPH", NoNum, parseInline(raw), <<>>, Undefined, <<>>)

\* the index at which the loop of parseList started at idx ends
RECURSIVE ListEnd(_, _, _)
ListEnd(toks, idx, itemType) ==
    IF idx < Len(toks) /\ toks[idx + 1].type = itemType
    THEN ListEnd(toks, idx + 1, itemType)
    ELSE idx

\* parseList(startIndex, listType): one paragraph per item token, whatever
\* its depth
parseList(toks, startIndex, listType) ==
    LET itemType == IF listType = "UL" THEN "UL_ITEM" ELSE "OL_ITEM"
        next == ListEnd(toks, startIndex, itemType)
    IN  [node |-> BNode(listType, NoNum, <<>>,
                        [k \in 1..(next - startIndex) |->
                            ParagraphNode(toks[startIndex + k].raw)],
                        Undefined, <<>>),
         next |-> next]

\* the j at which the loop over consecutive BLOCKQUOTE tokens started at j ends
RECURSIVE QuoteEnd(_, _)
QuoteEnd(toks, j) ==
    IF j < Len(toks) /\ toks[j + 1].type = "BLOCKQUOTE"
    THEN QuoteEnd(toks, j + 1)
    ELSE j

\* t.depth || 1
DepthOr1(t) == IF t.depth = NoNum \/ t.depth = Num(0) THEN Num(1) ELSE t.depth

RECURSIVE parseTokensToAST(_)

\* the BLOCKQUOTE node around the nodes a call returned
QuoteNode(innerNodes) ==
    IF innerNodes.returns
    THEN Returns(<<BNode("BLOCKQUOTE", NoNum, innerNodes.value, <<>>, Undefined, <<>>)>>)
    ELSE NeverReturns

\* parseTokensToAST(innerTokens) of the tokens a call of lexer returned
InnerNodes(innerTokens) ==
    IF innerTokens.returns THEN parseTokensToAST(innerTokens.value)
    ELSE NeverReturns

\* the iteration had it made a paragraph of every token, a BLANK one included
ParseStepKeepsBlank(toks, k) ==
    [nodes |-> Returns(<<ParagraphNode(toks[k + 1].raw)>>), next |-> k + 1]

\* one iteration of the main loop of parseTokensToAST at index k: the nodes
\* pushed and the new index
ParseStep(toks, k) ==
    LET t == toks[k + 1]
    IN  CASE t.type = "BLANK" -> [nodes |-> Returns(<<>>), next |-> k + 1]
          [] t.type = "HEADING" ->
               [nodes |-> Returns(<<BNode("HEADING", DepthOr1(t), parseInline(t.raw),
                                          <<>>, Undefined, <<>>)>>),
                next |-> k + 1]
          [] t.type = "HR" ->
               [nodes |-> Returns(<<BNode("HR", NoNum, <<>>, <<>>, Undefined, <<>>)>>),
                next |-> k + 1]
          [] t.type = "CODE_FENCE" ->
               [nodes |-> Returns(<<BNode("CODE", NoNum, <<>>, <<>>, t.lang, t.raw)>>),
                next |-> k + 1]
          [] t.type = "BLOCKQUOTE" ->
               LET j == QuoteEnd(toks, k)
                   inner == Join([m \in 1..(j - k) |-> toks[k + m].raw], NL)
               IN  [nodes |-> QuoteNode(InnerNodes(lexer(inner))), next |-> j]
          [] t.type \in {"UL_ITEM", "OL_ITEM"} ->
               LET r == parseList(toks, k, IF t.type = "UL_ITEM" THEN "UL" ELSE "OL")
               IN  [nodes |-> Returns(<<r.node>>), next |-> r.next]
          [] t.type = "PARAGRAPH" ->
               [nodes |-> Returns(<<ParagraphNode(t.raw)>>), next |-> k + 1]
          [] OTHER -> [nodes |-> Returns(<<>>), next |-> k + 1]

\* the main loop of parseTokensToAST from index k
RECURSIVE ParseFrom(_, _)
ParseFrom(toks, k) ==
    IF k >= Len(toks) THEN Returns(<<>>)
    ELSE Then(ParseStep(toks, k).nodes, ParseFrom(toks, ParseStep(toks, k).next))

parseTokensToAST(toks) == ParseFrom(toks, 0)

\* an element compileAstToHtml creates, by its tag and the elements appended
\* to it; the markup set into it from the inline nodes is not followed
Block(tag, kids) == [tag |-> tag, kids |-> kids]

\* the element one case of the switch of compileAstToHtml appends to root
BlockOf(node) ==
    CASE node.type = "HEADING" ->
            Block(<<"h1", "h2", "h3", "h4", "h5", "h6">>[
                      IF node.level.whole < 1 THEN 1
                      ELSE IF node.level.whole > 6 THEN 6 ELSE node.level.whole],
                  <<>>)
      [] node.type = "PARAGRAPH" -> Block("p", <<>>)
      [] node.type = "HR" -> Block("hr", <<>>)
      [] node.type = "CODE" -> Block("pre", <<Block("code", <<>>)>>)
      [] node.type = "UL" ->
            Block("ul", [k \in 1..Len(node.items) |-> Block("li", <<>>)])
      [] node.type = "OL" ->
            Block("ol", [k \in 1..Len(node.items) |-> Block("li", <<>>)])
      [] node.type = "BLOCKQUOTE" -> Block("blockquote", <<>>)

\* compileAstToHtml(ast): the root with one element per node of a known type
compileAstToHtml(nodes) ==
    LET known == SelectSeq(nodes, LAMBDA n : n.type \in
                    {"HEADING", "PARAGRAPH", "HR", "CODE", "UL", "OL", "BLOCKQUOTE"})
    IN  Block("div", [k \in 1..Len(known) |-> BlockOf(known[k])])

-----------------------------------------------------------------------------
(* class Lexer (src/src/markdown/lexer.ts, lines 273-565) *)

\* an optional number that is absent
NoLevel == -1

\* a Token of token.ts; TokenType names stand for the enum's members
CToken(type, value, level, lang, checked, listType, headers, rows, align) ==
    [type |-> type, value |-> value, level |-> level, lang |-> lang,
     checked |-> checked, listType |-> listType, headers |-> headers,
     rows |-> rows, align |-> align]

SimpleToken(type, value) ==
    CToken(type, value, NoLevel, Undefined, "undefined", "undefined", <<>>, <<>>, <<>>)

\* constructor: input.split("\n")
ClassLines(text) == Split(text, NL)

\* isHeader: /^#{1,6}\s/
isHeader(line) == HeadingMatch(line)

\* parseHeader: line.match(/^(#{1,6})\s+(.+)$/); (.+) needs one character, which
\* \s+ gives up from the run of whitespace when nothing follows the run
parseHeader(line) ==
    LET n == CountLeading(line, {"#"})
        rest == Drop(line, n)
        w == CountLeading(rest, WS)
    IN  IF w < Len(rest)
        THEN CToken("HEADER", Drop(rest, w), n, Undefined, "undefined", "undefined",
                    <<>>, <<>>, <<>>)
        ELSE IF w >= 2
        THEN CToken("HEADER", <<rest[w]>>, n, Undefined, "undefined", "undefined",
                    <<>>, <<>>, <<>>)
        ELSE SimpleToken("TEXT", line)

\* isHR: /^([-_*])\1{2,}$/.test(line.trim())
isHR(line) ==
    LET t == Trim(line)
    IN  /\ Len(t) >= 3
        /\ t[1] \in {"-", "_", "*"}
        /\ \A k \in 1..Len(t) : t[k] = t[1]

\* isTable: /^\|/.test(line.trim())
isTable(line) == StartsWith(Trim(line), <<"|">>)

\* isCodeFence: /^BT BT BT/
isCodeFence(line) == StartsFence(line)

\* isBlockquote: /^>\s/
isBlockquote(line) == Len(line) >= 2 /\ line[1] = ">" /\ line[2] \in WS

\* parseBlockquote: line.match(/^(>+)\s?(.*)$/), or level 1 when it fails
parseBlockquote(line) ==
    LET n == CountLeading(line, {">"})
        rest == Drop(line, n)
    IN  IF n >= 1
        THEN CToken("BLOCKQUOTE",
                    IF rest # <<>> /\ Head(rest) \in WS THEN Tail(rest) ELSE rest,
                    n, Undefined, "undefined", "undefined", <<>>, <<>>, <<>>)
        ELSE CToken("BLOCKQUOTE", line, 1, Undefined, "undefined", "undefined",
                    <<>>, <<>>, <<>>)

\* /^(\s*)[-*+]\s/
BulletStart(line) ==
    LET k == CountLeading(line, WS)
    IN  /\ Len(line) >= k + 2
        /\ line[k + 1] \in {"-", "*", "+"}
        /\ line[k + 2] \in WS

\* /^(\s*)\d+\.\s/
NumberStart(line) == OlMatch(line)

\* isList; its third pattern, the checkbox, implies the first
isList(line) == BulletStart(line) \/ NumberStart(line)

\* line.match(/^(\s*)[-*+]\s\[([ x])\]\s(.+)$/)
CheckboxMatch(line) ==
    LET k == CountLeading(line, WS)
    IN  /\ BulletStart(line)
        /\ Len(line) >= k + 7
        /\ line[k + 3] = "["
        /\ line[k + 4] \in {" ", "x"}
        /\ line[k + 5] = "]"
        /\ line[k + 6] \in WS

\* parseList
parseListItem(line) ==
    LET k == CountLeading(line, WS)
        d == CountLeading(Drop(line, k), Digit)
    IN  IF CheckboxMatch(line)
        THEN CToken("LIST_ITEM", Drop(line, k + 6), FloorHalfOf(k), Undefined,
                    IF line[k + 4] = "x" THEN "true" ELSE "false", "ul",
                    <<>>, <<>>, <<>>)
        ELSE IF BulletStart(line) /\ Len(line) >= k + 3
        THEN CToken("LIST_ITEM", Drop(line, k + 2), FloorHalfOf(k), Undefined,
                    "undefined", "ul", <<>>, <<>>, <<>>)
        ELSE IF NumberStart(line) /\ Len(line) >= k + d + 3
        THEN CToken("LIST_ITEM", Drop(line, k + d + 2), FloorHalfOf(k), Undefined,
                    "undefined", "ol", <<>>, <<>>, <<>>)
        ELSE SimpleToken("TEXT", line)

\* parseParagraph
parseParagraph(line) == SimpleToken("PARAGRAPH", line)

\* line.split("|").filter((c) => c.trim()), then map((c) => c.trim()): every
\* field that is empty after trimming is dropped
TableCells(line) ==
    LET kept == SelectSeq(Split(line, "|"), LAMBDA c : Trim(c) # <<>>)
    IN  [k \in 1..Len(kept) |-> Trim(kept[k])]

\* parseTable: the line after the header is taken as the alignment row when
\* alignLine.startsWith("|") && /[-:]/.test(alignLine)
AlignRowTaken(ls, k) ==
    /\ k + 1 < Len(ls)
    /\ StartsWith(Trim(ls[k + 2]), <<"|">>)
    /\ \E m \in 1..Len(ls[k + 2]) : ls[k + 2][m] \in {"-", ":"}

\* the alignment of a cell had a colon on both sides not been told apart from
\* a colon at the end
AlignOfNoCenter(trimmed) ==
    IF trimmed[Len(trimmed)] = ":" THEN "right" ELSE "left"

\* the alignment of one cell of the alignment row
AlignOf(trimmed) ==
    IF trimmed[1] = ":" /\ trimmed[Len(trimmed)] = ":" THEN "center"
    ELSE IF trimmed[Len(trimmed)] = ":" THEN "right"
    ELSE "left"

\* the cursor at which the loop over data rows, started at j, ends
RECURSIVE ScanRows(_, _)
ScanRows(ls, j) ==
    IF j < Len(ls) /\ StartsWith(Trim(ls[j + 1]), <<"|">>) THEN ScanRows(ls, j + 1)
    ELSE j

\* where the data rows of the table whose header is line k start
RowsStart(ls, k) == IF AlignRowTaken(ls, k) THEN k + 2 ELSE k + 1

\* parseTable had it not stepped back before returning
TableCursorNoStepBack(ls, k) == ScanRows(ls, RowsStart(ls, k))

\* parseTable: this.currentIndex when it returns, the header being line k
TableCursor(ls, k) == ScanRows(ls, RowsStart(ls, k)) - 1

\* parseTable: the token, the header being line k
parseTable(ls, k) ==
    LET headerLine == Trim(ls[k + 1])
        headers == IF StartsWith(headerLine, <<"|">>) THEN TableCells(headerLine)
                   ELSE <<>>
        alignCols == IF AlignRowTaken(ls, k) THEN TableCells(Trim(ls[k + 2])) ELSE <<>>
        align == [m \in 1..Len(alignCols) |-> AlignOf(alignCols[m])]
        first == RowsStart(ls, k)
        last == ScanRows(ls, first)
    IN  CToken("TABLE", <<>>, NoLevel, Undefined, "undefined", "undefined",
               headers,
               [m \in 1..(last - first) |-> TableCells(Trim(ls[first + m]))],
               IF Len(align) > 0 THEN align ELSE [m \in 1..Len(headers) |-> "left"])

\* \w: [A-Za-z0-9_]
WordChar ==
    Digit \cup {"_"} \cup
    {"a", "b", "c", "d", "e", "f", "g", "h", "i", "j", "k", "l", "m",
     "n", "o", "p", "q", "r", "s", "t", "u", "v", "w", "x", "y", "z",
     "A", "B", "C", "D", "E", "F", "G", "H", "I", "J", "K", "L", "M",
     "N", "O", "P", "Q", "R", "S", "T", "U", "V", "W", "X", "Y", "Z"}

\* code.trimEnd()
TrimEnd(s) == Take(s, Len(s) - CountTrailing(s, WS \cup {NL}))

\* the cursor at which the loop of parseCodeFence, started at j, ends: at a
\* line that is three backticks once trimmed, or at the end
RECURSIVE ScanClassFence(_, _)
ScanClassFence(ls, j) ==
    IF j < Len(ls) /\ Trim(ls[j + 1]) # <<BT, BT, BT>> THEN ScanClassFence(ls, j + 1)
    ELSE j

\* code, built by "code += line + NL" over the lines from j up to e
RECURSIVE FenceCode(_, _, _)
FenceCode(ls, j, e) ==
    IF j >= e THEN <<>> ELSE ls[j + 1] \o <<NL>> \o FenceCode(ls, j + 1, e)

\* parseCodeFence: this.currentIndex when it returns, the fence being line k
FenceCursor(ls, k) == ScanClassFence(ls, k + 1)

\* parseCodeFence: the token; lang is the (\w+)? of /^BT BT BT(\w+)?/, or ""
parseCodeFence(ls, k) ==
    LET rest == Drop(ls[k + 1], 3)
    IN  CToken("CODE_FENCE", TrimEnd(FenceCode(ls, k + 1, FenceCursor(ls, k))),
               NoLevel, Take(rest, CountLeading(rest, WordChar)),
               "undefined", "undefined", <<>>, <<>>, <<>>)

\* the branch of tokenizeLine a line takes (first match wins)
ClassRuleOf(line) ==
    IF Trim(line) = <<>> THEN "BLANK"
    ELSE IF isHeader(line) THEN "HEADER"
    ELSE IF isHR(line) THEN "HR"
    ELSE IF isTable(line) THEN "TABLE"
    ELSE IF isCodeFence(line) THEN "CODE_FENCE"
    ELSE IF isBlockquote(line) THEN "BLOCKQUOTE"
    ELSE IF isList(line) THEN "LIST"
    ELSE "PARAGRAPH"

\* tokenizeLine(this.lines[k]) with this.currentIndex = k: the token returned
\* and this.currentIndex when it returns
tokenizeLine(ls, k) ==
    LET line == ls[k + 1]
        rule == ClassRuleOf(line)
    IN  CASE rule = "BLANK" -> [tok |-> SimpleToken("BLANK", <<>>), cur |-> k]
          [] rule = "HEADER" -> [tok |-> parseHeader(line), cur |-> k]
          [] rule = "HR" -> [tok |-> SimpleToken("HR", line), cur |-> k]
          [] rule = "TABLE" -> [tok |-> parseTable(ls, k), cur |-> TableCursor(ls, k)]
          [] rule = "CODE_FENCE" ->
                [tok |-> parseCodeFence(ls, k), cur |-> FenceCursor(ls, k)]
          [] rule = "BLOCKQUOTE" -> [tok |-> parseBlockquote(line), cur |-> k]
          [] rule = "LIST" -> [tok |-> parseListItem(line), cur |-> k]
          [] OTHER -> [tok |-> parseParagraph(line), cur |-> k]

\* the j at which the inner loop of mergeBlockquotes, started at j, ends
RECURSIVE QuoteRunEnd(_, _)
QuoteRunEnd(toks, j) ==
    IF j < Len(toks) /\ toks[j + 1].type = "BLOCKQUOTE" THEN QuoteRunEnd(toks, j + 1)
    ELSE j

\* the main loop of mergeBlockquotes from index k
RECURSIVE MergeQuotesFrom(_, _)
MergeQuotesFrom(toks, k) ==
    IF k >= Len(toks) THEN <<>>
    ELSE IF toks[k + 1].type = "BLOCKQUOTE"
    THEN <<SimpleToken("BLOCKQUOTE",
              Join([m \in 1..(QuoteRunEnd(toks, k + 1) - k) |-> toks[k + m].value], NL))>>
         \o MergeQuotesFrom(toks, QuoteRunEnd(toks, k + 1))
    ELSE <<toks[k + 1]>> \o MergeQuotesFrom(toks, k + 1)

mergeBlockquotes(toks) == MergeQuotesFrom(toks, 0)

\* the loop of tokenize from cursor k
RECURSIVE TokenizeFrom(_, _)
TokenizeFrom(ls, k) ==
    IF k >= Len(ls) THEN <<>>
    ELSE <<tokenizeLine(ls, k).tok>> \o TokenizeFrom(ls, tokenizeLine(ls, k).cur + 1)

\* this.currentIndex when the loop of tokenize, entered at cursor k, ends
RECURSIVE CursorFrom(_, _)
CursorFrom(ls, k) ==
    IF k >= Len(ls) THEN k
    ELSE CursorFrom(ls, tokenizeLine(ls, k).cur + 1)

\* new Lexer(text).tokenize()
tokenize(text) == mergeBlockquotes(TokenizeFrom(ClassLines(text), 0))

-----------------------------------------------------------------------------
(* Inputs *)

\* the longest document, in lines
MaxLines == 3

\* how many tokens beyond one per line lexer may push before the model stops
\* following it
MaxExtraTokens == 2

\* the longest string given to parseInline, beside the scenarios
MaxInlineLen == 4

\* the text of the line at each position of a document: "@" in a line
\* template stands for it
Letters == <<"a", "b", "c", "d", "e", "f">>

Subst(t, n) == [k \in 1..Len(t) |-> IF t[k] = "@" THEN Letters[n] ELSE t[k]]

Docs(pool) == UNION {[1..n -> pool] : n \in 0..MaxLines}

TextOf(doc) == Join([k \in 1..Len(doc) |-> Subst(doc[k], k)], NL)

FencePool ==
    { <<BT, BT, BT>>,                          \* a fence line
      <<BT, BT, BT, "j", "s">>,                \* a fence line with a language
      <<BT, BT, BT, "@", " ", "x">>,           \* three backticks, not a fence start
      <<"@">>,
      <<>>,
      <<"#", " ", "@">> }

QuotePool ==
    { <<">", " ", "@">>,
      <<">", ">", " ", "@">>,
      <<">", ">", ">", " ", "@">>,
      <<">", "@">>,
      <<"@">>,
      <<>> }

ListPool ==
    { <<"-", " ", "@">>,
      <<" ", "-", " ", "@">>,
      <<" ", " ", "-", " ", "@">>,
      <<"1", ".", " ", "@">>,
      <<" ", " ", " ", "2", ".", " ", "@">>,
      <<"@">> }

BlockPool ==
    { <<"#", "#", " ", "@">>,
      <<"-", "-", "-">>,
      <<"*", " ", "*", " ", "*">>,
      <<"*", " ", "@">>,
      <<" ", ">", " ", "@">>,
      <<"@", " ", "@">> }

FnInputs ==
    {TextOf(d) : d \in Docs(FencePool) \cup Docs(QuotePool) \cup Docs(ListPool)
                        \cup Docs(BlockPool)}

TablePool ==
    { <<"|", " ", "@", " ", "|">>,
      <<"|", "-", "-", "-", "|">>,
      <<"|", ":", "-", ":", "|", "-", ":", "|">>,
      <<"|", " ", "@", "-", "x", " ", "|">>,        \* a cell with a hyphen in its text
      <<"|", "@", "|", " ", "|", "x", "|">>,        \* an empty cell in the middle
      <<"@">>,
      <<>> }

ClassFencePool ==
    { <<BT, BT, BT>>,
      <<BT, BT, BT, "j", "s">>,
      <<BT, BT, BT, "@">>,
      <<" ", BT, BT, BT>>,
      <<"@">>,
      <<>> }

ClassQuotePool ==
    { <<">", " ", "@">>,
      <<">", ">", " ", "@">>,
      <<">", "@">>,
      <<" ", ">", " ", "@">>,
      <<">", " ", ">", " ", "@">>,
      <<"@">> }

ClassListPool ==
    { <<"-", " ", "@">>,
      <<" ", "-", " ", "@">>,
      <<" ", " ", "-", " ", "@">>,
      <<" ", " ", " ", " ", "1", ".", " ", "@">>,
      <<"-", " ", "[", "x", "]", " ", "@">>,
      <<"-", " ">>,
      <<"1", ".", " ", "@">> }

ClassBlockPool ==
    { <<"#", " ", "@">>,
      <<"#", " ">>,
      <<"-", "-", "-">>,
      <<"*", "*", "*", "*">>,
      <<"*", " ", "*", " ", "*">>,
      <<"@">>,
      <<>> }

\* "| A | B |\n|---|---|\n| 1 | 2 |" of the specification, and the same table
\* with a paragraph after it
TableScenario ==
    << <<"|", " ", "A", " ", "|", " ", "B", " ", "|">>,
       <<"|", "-", "-", "-", "|", "-", "-", "-", "|">>,
       <<"|", " ", "1", " ", "|", " ", "2", " ", "|">> >>

ClassInputs ==
    {TextOf(d) : d \in Docs(TablePool) \cup Docs(ClassFencePool)
                        \cup Docs(ClassQuotePool) \cup Docs(ClassListPool)
                        \cup Docs(ClassBlockPool)
                        \cup {TableScenario, TableScenario \o << <<"@">> >>}}

InlineAlphabet == {"a", "*", "_", BT, "[", "]", "(", ")", "!"}

\* the inline scenario of the specification, "**a *b* c**"
StrongScenario == <<"*", "*", "a", " ", "*", "b", "*", " ", "c", "*", "*">>

\* "ab*cd_*": text before a span, and text before a delimiter inside the span
MergeScenario == <<"a", "b", "*", "c", "d", "_", "*">>

\* "**a *b***": a strong span whose interior ends with an emphasis span
StrongEndScenario == <<"*", "*", "a", " ", "*", "b", "*", "*", "*">>

InlineInputs ==
    UNION {[1..n -> InlineAlphabet] : n \in 0..MaxInlineLen}
        \cup {StrongScenario, MergeScenario, StrongEndScenario}

-----------------------------------------------------------------------------
(* The functional pipeline as a state machine: lexer(input), one action per  *)
(* rule of its main loop, then parseTokensToAST(tokens).                     *)

IdleInline == /\ src = <<>> /\ pos = 0 /\ out = <<>> /\ inl = <<>> /\ ipc = "idle"
IdleClass ==
    /\ clines = <<>> /\ currentIndex = 0 /\ ctokens = <<>> /\ spans = <<>>
    /\ handed = <<>> /\ again = <<>> /\ cpc = "idle"
IdleFn ==
    /\ input = <<>> /\ lines = <<>> /\ i = 0 /\ tokens = <<>> /\ ast = <<>>
    /\ root = <<>> /\ pc = "idle"
IdleDom == /\ editor = <<>> /\ preview = <<>> /\ renders = 0
IdleTr ==
    /\ tnodes = <<>> /\ tdone = 0 /\ tloc = <<>> /\ lis = <<>> /\ container = <<>>
    /\ tpc = "idle"

FnInit ==
    /\ input \in FnInputs
    /\ lines = LexLines(input)
    /\ i = 0
    /\ tokens = <<>>
    /\ ast = <<>>
    /\ root = <<>>
    /\ pc = "lex"
    /\ IdleInline /\ IdleClass /\ IdleDom /\ IdleTr

\* one iteration of "while (i < lines.length)" under the given rule
LexIteration ==
    /\ pc = "lex"
    /\ i < Len(lines)
    /\ Len(tokens) < Len(lines) + MaxExtraTokens
    /\ tokens' = Append(tokens, LexStep(lines, i).tok)
    /\ i' = LexStep(lines, i).next
    /\ UNCHANGED <<input, lines, ast, root, pc, inlVars, clsVars, domVars, trVars>>

LexBlank ==
    /\ i < Len(lines) /\ RuleOf(lines[i + 1]) = "BLANK"
    /\ LexIteration

LexCodeFence ==
    /\ i < Len(lines) /\ RuleOf(lines[i + 1]) = "CODE_FENCE"
    /\ LexIteration

LexHeading ==
    /\ i < Len(lines) /\ RuleOf(lines[i + 1]) = "HEADING"
    /\ LexIteration

LexHR ==
    /\ i < Len(lines) /\ RuleOf(lines[i + 1]) = "HR"
    /\ LexIteration

LexBlockquote ==
    /\ i < Len(lines) /\ RuleOf(lines[i + 1]) = "BLOCKQUOTE"
    /\ LexIteration

LexUlItem ==
    /\ i < Len(lines) /\ RuleOf(lines[i + 1]) = "UL_ITEM"
    /\ LexIteration

LexOlItem ==
    /\ i < Len(lines) /\ RuleOf(lines[i + 1]) = "OL_ITEM"
    /\ LexIteration

LexParagraph ==
    /\ i < Len(lines) /\ RuleOf(lines[i + 1]) = "PARAGRAPH"
    /\ LexIteration


\* the loop ends and lexer returns tokens
LexReturn ==
    /\ pc = "lex"
    /\ i >= Len(lines)
    /\ pc' = "lexed"
    /\ UNCHANGED <<input, lines, i, tokens, ast, root, inlVars, clsVars, domVars, trVars>>

\* parseTokensToAST(tokens), when it returns
ParseTokens ==
    /\ pc = "lexed"
    /\ parseTokensToAST(tokens).returns
    /\ ast' = parseTokensToAST(tokens).value
    /\ pc' = "done"
    /\ UNCHANGED <<input, lines, i, tokens, root, inlVars, clsVars, domVars, trVars>>

\* compileAstToHtml(ast), the last call of compileMarkdownToHtml
CompileAst ==
    /\ pc = "done"
    /\ root' = compileAstToHtml(ast)
    /\ pc' = "compiled"
    /\ UNCHANGED <<input, lines, i, tokens, ast, inlVars, clsVars, domVars, trVars>>

FnNext ==
    \/ LexBlank \/ LexCodeFence \/ LexHeading \/ LexHR \/ LexBlockquote
    \/ LexUlItem \/ LexOlItem \/ LexParagraph \/ LexReturn \/ ParseTokens
    \/ CompileAst

SpecFn == FnInit /\ [][FnNext]_vars

-----------------------------------------------------------------------------
(* parseInline(src) as a state machine: one action per branch of its main    *)
(* loop, then the return through mergeAdjacentTextNodes.                     *)

InlineInit ==
    /\ src \in InlineInputs
    /\ pos = 0
    /\ out = <<>>
    /\ inl = <<>>
    /\ ipc = "loop"
    /\ IdleFn /\ IdleClass /\ IdleDom /\ IdleTr

InlineIteration ==
    /\ ipc = "loop"
    /\ pos < Len(src)
    /\ out' = Append(out, InlineStep(src, pos).node)
    /\ pos' = InlineStep(src, pos).next
    /\ UNCHANGED <<src, inl, ipc, fnVars, clsVars, domVars, trVars>>

InlImage ==
    /\ InlineRule(src, pos) = "IMAGE"
    /\ InlineIteration

InlLink ==
    /\ InlineRule(src, pos) = "LINK"
    /\ InlineIteration

InlCode ==
    /\ InlineRule(src, pos) = "CODE"
    /\ InlineIteration

InlStrong ==
    /\ InlineRule(src, pos) = "STRONG"
    /\ InlineIteration

InlEm ==
    /\ InlineRule(src, pos) = "EM"
    /\ InlineIteration

InlText ==
    /\ InlineRule(src, pos) = "TEXT"
    /\ InlineIteration


InlReturn ==
    /\ ipc = "loop"
    /\ pos >= Len(src)
    /\ inl' = mergeAdjacentTextNodes(out)
    /\ ipc' = "done"
    /\ UNCHANGED <<src, pos, out, fnVars, clsVars, domVars, trVars>>

InlineNext ==
    \/ InlImage \/ InlLink \/ InlCode \/ InlStrong \/ InlEm \/ InlText
    \/ InlReturn

SpecInline == InlineInit /\ [][InlineNext]_vars

-----------------------------------------------------------------------------
(* Properties of the functional pipeline, checked under SpecFn *)

Chars(s) == {s[k] : k \in 1..Len(s)}

\* the letters in the text of a list of inline nodes, at any level
RECURSIVE InlineLetters(_)
InlineLetters(nodes) ==
    UNION {Chars(nodes[k].value) \cup InlineLetters(nodes[k].children) :
             k \in 1..Len(nodes)}

\* the numbers of enclosing BLOCKQUOTE nodes under which the letter l occurs
\* in the block nodes, themselves under d BLOCKQUOTE nodes
RECURSIVE QuoteDepths(_, _, _)
QuoteDepths(nodes, l, d) ==
    UNION {
        IF nodes[k].type = "BLOCKQUOTE" THEN QuoteDepths(nodes[k].children, l, d + 1)
        ELSE IF nodes[k].type \in {"UL", "OL"} THEN QuoteDepths(nodes[k].items, l, d)
        ELSE IF nodes[k].type = "CODE"
             THEN (IF l \in Chars(nodes[k].code) THEN {d} ELSE {})
        ELSE IF l \in InlineLetters(nodes[k].children) THEN {d} ELSE {}
      : k \in 1..Len(nodes)}

\* the letters of the paragraphs that are items of a list node
ItemLetters(node) ==
    UNION {InlineLetters(node.items[k].children) : k \in 1..Len(node.items)}

\* the letter that stands for the text of the line a token starts at
LetterOf(t) == Letters[t.line + 1]

\* x > y for two numbers
Greater(x, y) == 2 * x.whole + x.half > 2 * y.whole + y.half

\* C1: every iteration of the main loop of lexer advances the line cursor i by
\* at least one line, so lexer terminates on every input.
C1_EveryIterationAdvances == [][(pc = "lex" /\ pc' = "lex") => i' > i]_vars

\* C3: a list-item token deeper than the item before it goes into a nested
\* list under that item, not into the list that holds the item before it.
C3_DeeperItemIsNested ==
    pc = "done" =>
        \A k \in 1..(Len(tokens) - 1) :
            ( /\ tokens[k].type \in {"UL_ITEM", "OL_ITEM"}
              /\ tokens[k + 1].type = tokens[k].type
              /\ IsInteger(tokens[k].depth) /\ IsInteger(tokens[k + 1].depth)
              /\ Greater(tokens[k + 1].depth, tokens[k].depth) )
            => ~ \E n \in 1..Len(ast) :
                    /\ ast[n].type \in {"UL", "OL"}
                    /\ {LetterOf(tokens[k]), LetterOf(tokens[k + 1])}
                          \subseteq ItemLetters(ast[n])

\* C6: every list-item token of lexer carries the integer depth
\* floor(indent / 2), indent being the leading whitespace of its line.
C6_DepthIsFloorOfHalfIndent ==
    \A k \in 1..Len(tokens) :
        tokens[k].type \in {"UL_ITEM", "OL_ITEM"} =>
            tokens[k].depth = Num(FloorHalfOf(Indent(lines[tokens[k].line + 1])))

\* "> outer\n>> inner", with the letters a and b for outer and inner
QuoteScenario == TextOf(<< <<">", " ", "@">>, <<">", ">", " ", "@">> >>)

QuoteScenarioTree ==
    << BNode("BLOCKQUOTE", NoNum,
             << ParagraphNode(<<"a">>),
                BNode("BLOCKQUOTE", NoNum, <<ParagraphNode(<<"b">>)>>, <<>>,
                      Undefined, <<>>) >>,
             <<>>, Undefined, <<>>) >>

\* C7: the text of a line that starts with k >= 1 ">" characters ends up under
\* exactly k BLOCKQUOTE nodes, whatever the depths of the lines around it;
\* "> outer\n>> inner" gives Blockquote[Paragraph(outer), Blockquote[Paragraph(inner)]].
C7_QuoteDepthIsMarkerCount ==
    pc = "done" =>
        /\ \A n \in 1..Len(lines) :
              CountLeading(lines[n], {">"}) >= 1 /\ Letters[n] \in Chars(lines[n])
              => QuoteDepths(ast, Letters[n], 0) = {CountLeading(lines[n], {">"})}
        /\ (input = QuoteScenario => ast = QuoteScenarioTree)

\* a shallower quoted line after a deeper one has been built
C7_Witness ==
    /\ pc = "done"
    /\ Len(lines) = 3
    /\ CountLeading(lines[1], {">"}) = 1
    /\ CountLeading(lines[2], {">"}) = 3
    /\ CountLeading(lines[3], {">"}) = 2
    /\ QuoteDepths(ast, "c", 0) = {2}

-----------------------------------------------------------------------------
(* Properties of parseInline, checked under SpecInline *)

\* a CODE, STRONG or EM branch is about to run on an opening delimiter that
\* does not occur again before the end of src
UnclosedDelimiterAt(s, k) ==
    CASE InlineRule(s, k) = "CODE" -> ReadUntil(s, <<BT>>, k + 1) = Len(s)
      [] InlineRule(s, k) = "STRONG" ->
            ~ \E m \in (k + 2)..(Len(s) - 2) : StartsWithAt(s, SubSeq(s, k + 1, k + 2), m)
      [] InlineRule(s, k) = "EM" ->
            ~ \E m \in (k + 1)..(Len(s) - 1) : s[m + 1] = s[k + 1]
      [] OTHER -> FALSE

\* C4: an opening delimiter with no closer before the end of the input is
\* emitted as literal TEXT; no STRONG, EM or CODE node is made for it.
C4_UnclosedDelimiterIsText ==
    [][(ipc = "loop" /\ pos < Len(src) /\ UnclosedDelimiterAt(src, pos))
        => out'[Len(out')].type = "TEXT"]_vars

RECURSIVE NoAdjacentText(_)
NoAdjacentText(nodes) ==
    /\ \A k \in 1..(Len(nodes) - 1) :
          ~(nodes[k].type = "TEXT" /\ nodes[k + 1].type = "TEXT")
    /\ \A k \in 1..Len(nodes) : NoAdjacentText(nodes[k].children)

\* C5: the tree parseInline returns has no two adjacent TEXT siblings, at the
\* top level or among the children of a STRONG, EM or LINK node.
C5_NoAdjacentText == ipc = "done" => NoAdjacentText(inl)

\* the loop pushed two TEXT nodes in a row at the top level, and a nested span
\* holds a text of two characters that were pushed one by one, a delimiter
\* being ahead of them
C5_Witness ==
    /\ ipc = "done"
    /\ \E k \in 1..(Len(out) - 1) : out[k].type = "TEXT" /\ out[k + 1].type = "TEXT"
    /\ \E k \in 1..Len(inl) :
          /\ inl[k].type \in {"STRONG", "EM", "LINK"}
          /\ Len(inl[k].children) >= 2
          /\ inl[k].children[1].type = "TEXT"
          /\ Len(inl[k].children[1].value) >= 2

-----------------------------------------------------------------------------
(* new Lexer(text).tokenize() as a state machine: one action per branch of   *)
(* tokenizeLine, each a whole iteration of the loop of tokenize, then the    *)
(* return through mergeBlockquotes.                                          *)

ClassInit ==
    /\ clines \in {ClassLines(t) : t \in ClassInputs}
    /\ currentIndex = 0
    /\ ctokens = <<>>
    /\ spans = <<>>
    /\ handed = <<>>
    /\ again = <<>>
    /\ cpc = "loop"
    /\ IdleFn /\ IdleInline /\ IdleDom /\ IdleTr

\* one iteration of "while (this.currentIndex < this.lines.length)"; spans
\* notes the cursor before it and after it
TokenizeIteration ==
    /\ cpc = "loop"
    /\ currentIndex < Len(clines)
    /\ ctokens' = Append(ctokens, tokenizeLine(clines, currentIndex).tok)
    /\ currentIndex' = tokenizeLine(clines, currentIndex).cur + 1
    /\ spans' = Append(spans, [from |-> currentIndex,
                               next |-> tokenizeLine(clines, currentIndex).cur + 1])
    /\ UNCHANGED <<clines, handed, again, cpc, fnVars, inlVars, domVars, trVars>>

AtRule(rule) == currentIndex < Len(clines) /\ ClassRuleOf(clines[currentIndex + 1]) = rule

TokBlank ==
    /\ AtRule("BLANK")
    /\ TokenizeIteration

TokHeader ==
    /\ AtRule("HEADER")
    /\ TokenizeIteration

TokHR ==
    /\ AtRule("HR")
    /\ TokenizeIteration

TokTable ==
    /\ AtRule("TABLE")
    /\ TokenizeIteration

TokCodeFence ==
    /\ AtRule("CODE_FENCE")
    /\ TokenizeIteration

TokBlockquote ==
    /\ AtRule("BLOCKQUOTE")
    /\ TokenizeIteration

TokList ==
    /\ AtRule("LIST")
    /\ TokenizeIteration

TokParagraph ==
    /\ AtRule("PARAGRAPH")
    /\ TokenizeIteration

\* return this.mergeBlockquotes(tokens)
TokReturn ==
    /\ cpc = "loop"
    /\ currentIndex >= Len(clines)
    /\ handed' = mergeBlockquotes(ctokens)
    /\ cpc' = "done"
    /\ UNCHANGED <<clines, currentIndex, ctokens, spans, again, fnVars, inlVars, domVars, trVars>>

\* a second tokenize() of the same Lexer, after the first has returned: tokens
\* is a new empty list, this.lines and this.currentIndex are the fields the
\* first call left, and nothing sets the cursor back before the loop
TokenizeAgain ==
    /\ cpc = "done"
    /\ again' = mergeBlockquotes(TokenizeFrom(clines, currentIndex))
    /\ currentIndex' = CursorFrom(clines, currentIndex)
    /\ cpc' = "again"
    /\ UNCHANGED <<clines, ctokens, spans, handed, fnVars, inlVars, domVars, trVars>>

ClassNext ==
    \/ TokBlank \/ TokHeader \/ TokHR \/ TokTable \/ TokCodeFence
    \/ TokBlockquote \/ TokList \/ TokParagraph \/ TokReturn \/ TokenizeAgain

SpecClass == ClassInit /\ [][ClassNext]_vars

-----------------------------------------------------------------------------
(* Properties of Lexer.tokenize, checked under SpecClass *)

\* the line indices the k-th pushed token consumed
Consumed(k) ==
    {n \in spans[k].from..(spans[k].next - 1) : n < Len(clines)}

\* the line at index n (0-based) is a closing fence for parseCodeFence
ClosesFence(n) == Trim(clines[n + 1]) = <<BT, BT, BT>>

\* C2: before blockquote merging every line index is consumed by exactly one
\* token: the cursor only moves forward, a table token covers its header,
\* alignment row and data rows, a fence token covers its opening line, body
\* and closing line, and the line after either is the next token's first.
C2_EveryLineInOneToken ==
    /\ Len(spans) = Len(ctokens)
    /\ \A n \in 0..(Len(clines) - 1) :
          (n < currentIndex) => Cardinality({k \in 1..Len(spans) : n \in Consumed(k)}) = 1
    /\ \A n \in 0..(Len(clines) - 1) :
          (n >= currentIndex) => {k \in 1..Len(spans) : n \in Consumed(k)} = {}
    /\ \A k \in 1..Len(spans) : spans[k].from < spans[k].next
    /\ \A k \in 1..(Len(spans) - 1) : spans[k + 1].from = spans[k].next
    /\ (cpc = "done" => currentIndex >= Len(clines))
    /\ \A k \in 1..Len(spans) :
          ctokens[k].type = "TABLE" =>
            /\ \A n \in Consumed(k) : isTable(clines[n + 1])
            /\ Cardinality(Consumed(k))
                  = 1 + (IF AlignRowTaken(clines, spans[k].from) THEN 1 ELSE 0)
                      + Len(ctokens[k].rows)
            /\ spans[k].next < Len(clines) => ~isTable(clines[spans[k].next + 1])
    /\ \A k \in 1..Len(spans) :
          ctokens[k].type = "CODE_FENCE" =>
            /\ \A n \in Consumed(k) :
                  (n > spans[k].from /\ n < spans[k].next - 1) => ~ClosesFence(n)
            /\ \/ spans[k].next = Len(clines) + 1
               \/ /\ spans[k].next - 1 > spans[k].from
                  /\ ClosesFence(spans[k].next - 1)

\* a table of a header, an alignment row and a data row was tokenized, and the
\* line after it became the next token
C2_Witness ==
    /\ cpc = "done"
    /\ Len(ctokens) = 2
    /\ ctokens[1].type = "TABLE"
    /\ Consumed(1) = {0, 1, 2}
    /\ ctokens[2].type = "PARAGRAPH"
    /\ Consumed(2) = {3}

\* the first character of a line that is not whitespace, or "" when it has none
FirstNonBlank(line) ==
    IF IsBlank(line) THEN "" ELSE line[CountLeading(line, WS) + 1]

\* C8: every line whose first non-whitespace character is ">" becomes a
\* BLOCKQUOTE token, and the token handed on records level = the number of
\* leading ">" of the line.
C8_QuoteLinesBecomeLevelledQuotes ==
    /\ \A k \in 1..Len(ctokens) :
          FirstNonBlank(clines[spans[k].from + 1]) = ">" => ctokens[k].type = "BLOCKQUOTE"
    /\ cpc = "done" /\ Len(clines) = 1 /\ FirstNonBlank(clines[1]) = ">"
          => /\ Len(handed) = 1
             /\ handed[1].type = "BLOCKQUOTE"
             /\ handed[1].level
                   = CountLeading(Drop(clines[1], CountLeading(clines[1], WS)), {">"})

\* every cell of the line is made of "-" and ":" only
IsAlignmentRow(line) ==
    \A c \in 1..Len(TableCells(Trim(line))) :
        Chars(TableCells(Trim(line))[c]) \subseteq {"-", ":"}

\* C10: the line after the header is consumed as the alignment row only if all
\* its cells are made of "-" and ":"; any other "|" line there is the first
\* data row.
C10_OnlyDashColonRowIsAlignment ==
    \A k \in 1..Len(ctokens) :
        ( /\ ctokens[k].type = "TABLE"
          /\ spans[k].from + 1 < Len(clines)
          /\ isTable(clines[spans[k].from + 2])
          /\ ~IsAlignmentRow(clines[spans[k].from + 2]) )
        => /\ ctokens[k].rows # <<>>
           /\ ctokens[k].rows[1] = TableCells(Trim(clines[spans[k].from + 2]))

-----------------------------------------------------------------------------
(* Regular expressions of Parser and Translator.  A pattern is a sequence  *)
(* of items; the groups of a match are the texts of its runs, in order.    *)

\* the literal l
Lit(l) == [kind |-> "lit", lit |-> l, set |-> {}, min |-> 0]
\* [^S]{n,}, greedy; what follows cannot begin inside the run
RunNot(S, n) == [kind |-> "not", lit |-> <<>>, set |-> S, min |-> n]
\* [S]{n,}, greedy
RunIn(S, n) == [kind |-> "in", lit |-> <<>>, set |-> S, min |-> n]
\* [\s\S]*? followed by the literal l
Until(l) == [kind |-> "until", lit |-> l, set |-> {}, min |-> 0]

NoMatch == [ok |-> FALSE, end |-> 0, groups |-> <<>>]

\* s.indexOf(l, p), -1 when absent
RECURSIVE IndexOf(_, _, _)
IndexOf(s, l, p) ==
    IF p + Len(l) > Len(s) THEN -1
    ELSE IF StartsWithAt(s, l, p) THEN p
    ELSE IndexOf(s, l, p + 1)

\* the length of the run an item takes at p
RunLength(s, p, item) ==
    IF item.kind = "not" THEN CountLeadingNot(Drop(s, p), item.set)
    ELSE CountLeading(Drop(s, p), item.set)

\* the items of pat from the k-th on, matched at p after the groups g
RECURSIVE MatchItems(_, _, _, _, _)
MatchItems(s, p, pat, k, g) ==
    IF k > Len(pat) THEN [ok |-> TRUE, end |-> p, groups |-> g]
    ELSE IF pat[k].kind = "lit"
    THEN IF StartsWithAt(s, pat[k].lit, p)
         THEN MatchItems(s, p + Len(pat[k].lit), pat, k + 1, g)
         ELSE NoMatch
    ELSE IF pat[k].kind = "until"
    THEN IF IndexOf(s, pat[k].lit, p) >= 0
         THEN MatchItems(s, IndexOf(s, pat[k].lit, p) + Len(pat[k].lit), pat, k + 1,
                         Append(g, SubSeq(s, p + 1, IndexOf(s, pat[k].lit, p))))
         ELSE NoMatch
    ELSE IF RunLength(s, p, pat[k]) >= pat[k].min
    THEN MatchItems(s, p + RunLength(s, p, pat[k]), pat, k + 1,
                    Append(g, SubSeq(s, p + 1, p + RunLength(s, p, pat[k]))))
    ELSE NoMatch

\* a replacement: literals and groups of the match ($1, $2, ...)
L(l) == [grp |-> 0, lit |-> l]
G(n) == [grp |-> n, lit |-> <<>>]

RECURSIVE Fill(_, _, _)
Fill(rep, g, k) ==
    IF k > Len(rep) THEN <<>>
    ELSE (IF rep[k].grp > 0 THEN g[rep[k].grp] ELSE rep[k].lit) \o Fill(rep, g, k + 1)

\* a pattern with the replacement of its matches
Rule(pat, rep) == [pat |-> pat, rep |-> rep]

\* the first of the alternatives rules, from the k-th on, that matches at p
RECURSIVE MatchAny(_, _, _, _)
MatchAny(s, p, rules, k) ==
    IF k > Len(rules) THEN [ok |-> FALSE, end |-> 0, text |-> <<>>]
    ELSE IF MatchItems(s, p, rules[k].pat, 1, <<>>).ok
    THEN [ok |-> TRUE, end |-> MatchItems(s, p, rules[k].pat, 1, <<>>).end,
          text |-> Fill(rules[k].rep, MatchItems(s, p, rules[k].pat, 1, <<>>).groups, 1)]
    ELSE MatchAny(s, p, rules, k + 1)

\* s.replace(/rules/g, replacement) from position p on: matches are taken
\* left to right and do not overlap
RECURSIVE ReplaceFrom(_, _, _)
ReplaceFrom(s, p, rules) ==
    IF p >= Len(s) THEN <<>>
    ELSE IF MatchAny(s, p, rules, 1).ok
    THEN MatchAny(s, p, rules, 1).text \o ReplaceFrom(s, MatchAny(s, p, rules, 1).end, rules)
    ELSE <<s[p + 1]>> \o ReplaceFrom(s, p + 1, rules)

Replace(s, pat, rep) == ReplaceFrom(s, 0, <<Rule(pat, rep)>>)

\* \w
IsWordStart(s, p) ==
    /\ s[p + 1] \in WordChar
    /\ p = 0 \/ s[p] \notin WordChar

WordAt(s, p) == Take(Drop(s, p), CountLeading(Drop(s, p), WordChar))

IsNumber(w) == \A k \in 1..Len(w) : w[k] \in Digit

\* s.replace(/\b(word)\b/g, open $1 close) from p on, the words being those
\* of the set words, or the runs of digits: with a boundary on both sides
\* the match is a whole run of word characters
RECURSIVE ReplaceWordsFrom(_, _, _, _, _, _)
ReplaceWordsFrom(s, p, words, digits, open, close) ==
    IF p >= Len(s) THEN <<>>
    ELSE IF /\ IsWordStart(s, p)
            /\ IF digits THEN IsNumber(WordAt(s, p)) ELSE WordAt(s, p) \in words
    THEN open \o WordAt(s, p) \o close
         \o ReplaceWordsFrom(s, p + Len(WordAt(s, p)), words, digits, open, close)
    ELSE <<s[p + 1]>> \o ReplaceWordsFrom(s, p + 1, words, digits, open, close)

-----------------------------------------------------------------------------
(* class Parser (src/src/markdown/translator.ts, lines 325-495) *)

\* an ASTNode of token.ts
ASTNode(type, value, level, lang, checked, listType, headers, rows, align) ==
    [type |-> type, value |-> value, level |-> level, lang |-> lang,
     checked |-> checked, listType |-> listType, headers |-> headers,
     rows |-> rows, align |-> align]

\* /!\[([^\]]*)\]\(([^)]+)\)(?:\{([^}]+)\})?/g: the optional group is taken
\* when it matches
parseImages(text) ==
    LET pattern == <<Lit(<<"!", "[">>), RunNot({"]"}, 0), Lit(<<"]", "(">>), RunNot({")"}, 1), Lit(<<")">>)>>
        tag == <<L(<<"<", "i", "m", "g", " ", "s", "r", "c", "=", "\"">>), G(2), L(<<"\"", " ", "a", "l", "t", "=", "\"">>), G(1), L(<<"\"">>)>>
    IN  ReplaceFrom(text, 0,
            << Rule(pattern \o <<Lit(<<"{">>), RunNot({"}"}, 1), Lit(<<"}">>)>>,
                    tag \o <<L(<<" ", "d", "a", "t", "a", "-", "s", "i", "z", "e", "=", "\"">>), G(3), L(<<"\"", ">">>)>>),
               Rule(pattern, tag \o <<L(<<">">>)>>) >>)

parseStrong(text) ==
    LET tag == <<L(<<"<", "s", "t", "r", "o", "n", "g", ">">>), G(1), L(<<"<", "/", "s", "t", "r", "o", "n", "g", ">">>)>>
    IN  Replace(Replace(text, <<Lit(<<"*", "*">>), RunNot({"*"}, 1), Lit(<<"*", "*">>)>>, tag),
                <<Lit(<<"_", "_">>), RunNot({"_"}, 1), Lit(<<"_", "_">>)>>, tag)

parseEm(text) ==
    LET tag == <<L(<<"<", "e", "m", ">">>), G(1), L(<<"<", "/", "e", "m", ">">>)>>
    IN  Replace(Replace(text, <<Lit(<<"*">>), RunNot({"*"}, 1), Lit(<<"*">>)>>, tag),
                <<Lit(<<"_">>), RunNot({"_"}, 1), Lit(<<"_">>)>>, tag)

parseCode(text) ==
    Replace(text, <<Lit(<<BT>>), RunNot({BT}, 1), Lit(<<BT>>)>>,
            <<L(<<"<", "c", "o", "d", "e", ">">>), G(1), L(<<"<", "/", "c", "o", "d", "e", ">">>)>>)

\* the macros replaced by one character, in the order of the code
LatexSymbols ==
    << <<<<"\\", "t", "i", "m", "e", "s">>, "U+00D7">>, <<<<"\\", "d", "i", "v">>, "U+00F7">>, <<<<"\\", "p", "m">>, "U+00B1">>,
       <<<<"\\", "l", "e", "q">>, "U+2264">>, <<<<"\\", "g", "e", "q">>, "U+2265">>, <<<<"\\", "n", "e", "q">>, "U+2260">>,
       <<<<"\\", "a", "p", "p", "r", "o", "x">>, "U+2248">>, <<<<"\\", "i", "n", "f", "t", "y">>, "U+221E">> >>

RECURSIVE ReplaceSymbols(_, _)
ReplaceSymbols(html, k) ==
    IF k > Len(LatexSymbols) THEN html
    ELSE ReplaceSymbols(
            Replace(html, <<Lit(LatexSymbols[k][1])>>, <<L(<<LatexSymbols[k][2]>>)>>),
            k + 1)

renderLatex(latex) ==
    LET frac == <<L(<<"<", "s", "p", "a", "n", " ", "c", "l", "a", "s", "s", "=", "\"", "f", "r", "a", "c", "\"", ">", "<", "s", "p", "a", "n", " ", "c", "l", "a", "s", "s", "=", "\"", "f", "r", "a", "c", "-", "n", "u", "m", "\"", ">">>), G(1),
                  L(<<"<", "/", "s", "p", "a", "n", ">", "<", "s", "p", "a", "n", " ", "c", "l", "a", "s", "s", "=", "\"", "f", "r", "a", "c", "-", "l", "i", "n", "e", "\"", ">", "<", "/", "s", "p", "a", "n", ">", "<", "s", "p", "a", "n", " ", "c", "l", "a", "s", "s", "=", "\"", "f", "r", "a", "c", "-", "d", "e", "n", "\"", ">">>),
                  G(2), L(<<"<", "/", "s", "p", "a", "n", ">", "<", "/", "s", "p", "a", "n", ">">>)>>
        sqrt == <<L(<<"<", "s", "p", "a", "n", " ", "c", "l", "a", "s", "s", "=", "\"", "s", "q", "r", "t", "\"", ">", "<", "s", "p", "a", "n", " ", "c", "l", "a", "s", "s", "=", "\"", "s", "q", "r", "t", "-", "s", "y", "m", "b", "o", "l", "\"", ">">> \o <<"U+221A">>
                    \o <<"<", "/", "s", "p", "a", "n", ">", "<", "s", "p", "a", "n", " ", "c", "l", "a", "s", "s", "=", "\"", "s", "q", "r", "t", "-", "c", "o", "n", "t", "e", "n", "t", "\"", ">">>), G(1),
                  L(<<"<", "/", "s", "p", "a", "n", ">", "<", "/", "s", "p", "a", "n", ">">>)>>
    IN  ReplaceSymbols(
            Replace(Replace(latex,
                            <<Lit(<<"\\", "f", "r", "a", "c", "{">>), RunNot({"}"}, 1), Lit(<<"}", "{">>),
                              RunNot({"}"}, 1), Lit(<<"}">>)>>, frac),
                    <<Lit(<<"\\", "s", "q", "r", "t", "{">>), RunNot({"}"}, 1), Lit(<<"}">>)>>, sqrt),
            1)

LatexPattern == <<Lit(<<"$">>), RunNot({"$"}, 1), Lit(<<"$">>)>>

\* text.replace(/\$([^$]+)\$/g, ...) from position p on
RECURSIVE ParseLatexFrom(_, _)
ParseLatexFrom(s, p) ==
    IF p >= Len(s) THEN <<>>
    ELSE IF MatchItems(s, p, LatexPattern, 1, <<>>).ok
    THEN <<"<", "s", "p", "a", "n", " ", "c", "l", "a", "s", "s", "=", "\"", "l", "a", "t", "e", "x", "\"", ">">>
         \o renderLatex(MatchItems(s, p, LatexPattern, 1, <<>>).groups[1]) \o <<"<", "/", "s", "p", "a", "n", ">">>
         \o ParseLatexFrom(s, MatchItems(s, p, LatexPattern, 1, <<>>).end)
    ELSE <<s[p + 1]>> \o ParseLatexFrom(s, p + 1)

parseLatex(text) == ParseLatexFrom(text, 0)

\* \s in the patterns below
Space == WS \cup {NL, "\r"}

parseCustomHTML(text) ==
    Replace(Replace(Replace(text,
                <<Lit(<<"<", "f", "o", "n", "t">>), RunIn(Space, 1), Lit(<<"c", "o", "l", "o", "r", "=", "\"">>), RunNot({"\""}, 1),
                  Lit(<<"\"", ">">>), RunNot({"<"}, 1), Lit(<<"<", "/", "f", "o", "n", "t", ">">>)>>,
                <<L(<<"<", "s", "p", "a", "n", " ", "s", "t", "y", "l", "e", "=", "\"", "c", "o", "l", "o", "r", ":", " ">>), G(2), L(<<"\"", ">">>), G(3), L(<<"<", "/", "s", "p", "a", "n", ">">>)>>),
            <<Lit(<<"<", "u", "p", ">">>), RunNot({"<"}, 1), Lit(<<"<", "/", "u", "p", ">">>)>>,
            <<L(<<"<", "s", "u", "p", ">">>), G(1), L(<<"<", "/", "s", "u", "p", ">">>)>>),
        <<Lit(<<"<", "d", "o", "w", "n", ">">>), RunNot({"<"}, 1), Lit(<<"<", "/", "d", "o", "w", "n", ">">>)>>,
        <<L(<<"<", "s", "u", "b", ">">>), G(1), L(<<"<", "/", "s", "u", "b", ">">>)>>)

parseUnderline(text) ==
    Replace(text, <<Lit(<<"<", "u", ">">>), RunNot({"<"}, 1), Lit(<<"<", "/", "u", ">">>)>>,
            <<L(<<"<", "u", ">">>), G(1), L(<<"<", "/", "u", ">">>)>>)

parseStrikethrough(text) ==
    Replace(text, <<Lit(<<"~", "~">>), RunNot({"~"}, 1), Lit(<<"~", "~">>)>>,
            <<L(<<"<", "s", ">">>), G(1), L(<<"<", "/", "s", ">">>)>>)

\* Parser.parseInline
Parser_parseInline(text) ==
    parseCode(parseStrikethrough(parseUnderline(parseEm(parseStrong(
        parseCustomHTML(parseLatex(parseImages(text))))))))

\* Parser.parseToken, for a token that is not BLANK (BLANK gives null)
parseToken(token) ==
    CASE token.type = "HEADER" ->
            ASTNode("HEADER", Parser_parseInline(token.value), token.level, Undefined,
                    "undefined", "undefined", <<>>, <<>>, <<>>)
      [] token.type = "HR" ->
            ASTNode("HR", Undefined, NoLevel, Undefined, "undefined", "undefined",
                    <<>>, <<>>, <<>>)
      [] token.type = "CODE_FENCE" ->
            ASTNode("CODE_FENCE", token.value, NoLevel, token.lang, "undefined",
                    "undefined", <<>>, <<>>, <<>>)
      [] token.type = "BLOCKQUOTE" ->
            ASTNode("BLOCKQUOTE", token.value, token.level, Undefined, "undefined",
                    "undefined", <<>>, <<>>, <<>>)
      [] token.type = "LIST_ITEM" ->
            ASTNode("LIST_ITEM", Parser_parseInline(token.value), token.level, Undefined,
                    token.checked, token.listType, <<>>, <<>>, <<>>)
      [] token.type = "TABLE" ->
            ASTNode("TABLE", Undefined, NoLevel, Undefined, "undefined", "undefined",
                    [c \in 1..Len(token.headers) |-> Parser_parseInline(token.headers[c])],
                    [r \in 1..Len(token.rows) |->
                        [c \in 1..Len(token.rows[r]) |-> Parser_parseInline(token.rows[r][c])]],
                    token.align)
      [] token.type = "PARAGRAPH" ->
            ASTNode("PARAGRAPH", Parser_parseInline(token.value), NoLevel, Undefined,
                    "undefined", "undefined", <<>>, <<>>, <<>>)
      [] OTHER ->
            ASTNode("TEXT", token.value, NoLevel, Undefined, "undefined", "undefined",
                    <<>>, <<>>, <<>>)

\* the loop of Parser.parse from this.currentIndex = k
RECURSIVE ParserFrom(_, _)
ParserFrom(toks, k) ==
    IF k >= Len(toks) THEN <<>>
    ELSE IF toks[k + 1].type = "BLANK" THEN ParserFrom(toks, k + 1)
    ELSE <<parseToken(toks[k + 1])>> \o ParserFrom(toks, k + 1)

\* new Parser(toks).parse()
parse(toks) == ParserFrom(toks, 0)

-----------------------------------------------------------------------------
(* class Translator (src/src/markdown/translator.ts, lines 4-321) *)
(* Elements live in a heap h, a sequence; a reference is an index into it, *)
(* 0 is null.  Element 1 is the container of translate.                    *)

\* new Html(tag)
Elem(tag) ==
    [tag |-> tag, cls |-> <<>>, type |-> "", checked |-> FALSE, align |-> "",
     html |-> <<>>, kids |-> <<>>]

\* the heap after document.createElement; the new reference is its length
New(h, e) == Append(h, e)

\* parent.append(child)
append(h, parent, child) == [h EXCEPT ![parent].kids = Append(@, child)]

\* elm.lastChild(); it is only asked of ul and ol elements, whose element
\* children are the ones appended
lastChild(h, id) == IF h[id].kids = <<>> THEN 0 ELSE h[id].kids[Len(h[id].kids)]

\* node.value || ""
ValueOrEmpty(v) == IF v = Undefined THEN <<>> ELSE v

\* escapeHtml: textContent read back as innerHTML
RECURSIVE escapeHtml(_)
escapeHtml(text) ==
    IF text = <<>> THEN <<>>
    ELSE (CASE Head(text) = "&" -> <<"&", "a", "m", "p", ";">>
            [] Head(text) = "<" -> <<"&", "l", "t", ";">>
            [] Head(text) = ">" -> <<"&", "g", "t", ";">>
            [] OTHER -> <<Head(text)>>) \o escapeHtml(Tail(text))

\* the keys of the object literal keywords
OwnKeys == {<<"j", "a", "v", "a", "s", "c", "r", "i", "p", "t">>, <<"p", "y", "t", "h", "o", "n">>, <<"j", "a", "v", "a">>, <<"t", "y", "p", "e", "s", "c", "r", "i", "p", "t">>}

\* the keys every object literal inherits from Object.prototype: keywords[lang]
\* is then a function or an object, and has no join
InheritedKeys ==
    {<<"c", "o", "n", "s", "t", "r", "u", "c", "t", "o", "r">>,
             <<"t", "o", "S", "t", "r", "i", "n", "g">>,
             <<"t", "o", "L", "o", "c", "a", "l", "e", "S", "t", "r", "i", "n", "g">>,
             <<"v", "a", "l", "u", "e", "O", "f">>,
             <<"h", "a", "s", "O", "w", "n", "P", "r", "o", "p", "e", "r", "t", "y">>,
             <<"i", "s", "P", "r", "o", "t", "o", "t", "y", "p", "e", "O", "f">>,
             <<"p", "r", "o", "p", "e", "r", "t", "y", "I", "s", "E", "n", "u", "m", "e", "r", "a", "b", "l", "e">>,
             <<"_", "_", "p", "r", "o", "t", "o", "_", "_">>,
             <<"_", "_", "d", "e", "f", "i", "n", "e", "G", "e", "t", "t", "e", "r", "_", "_">>,
             <<"_", "_", "d", "e", "f", "i", "n", "e", "S", "e", "t", "t", "e", "r", "_", "_">>,
             <<"_", "_", "l", "o", "o", "k", "u", "p", "G", "e", "t", "t", "e", "r", "_", "_">>,
             <<"_", "_", "l", "o", "o", "k", "u", "p", "S", "e", "t", "t", "e", "r", "_", "_">>}

\* keywords[lang] of an own key
KeywordsOf(lang) ==
    CASE lang = <<"j", "a", "v", "a", "s", "c", "r", "i", "p", "t">> ->
            {<<"c", "o", "n", "s", "t">>,
             <<"l", "e", "t">>,
             <<"v", "a", "r">>,
             <<"f", "u", "n", "c", "t", "i", "o", "n">>,
             <<"r", "e", "t", "u", "r", "n">>,
             <<"i", "f">>,
             <<"e", "l", "s", "e">>,
             <<"f", "o", "r">>,
             <<"w", "h", "i", "l", "e">>,
             <<"c", "l", "a", "s", "s">>,
             <<"n", "e", "w">>,
             <<"i", "m", "p", "o", "r", "t">>,
             <<"e", "x", "p", "o", "r", "t">>,
             <<"f", "r", "o", "m">>,
             <<"a", "s", "y", "n", "c">>,
             <<"a", "w", "a", "i", "t">>}
      [] lang = <<"p", "y", "t", "h", "o", "n">> ->
            {<<"d", "e", "f">>,
             <<"c", "l", "a", "s", "s">>,
             <<"i", "m", "p", "o", "r", "t">>,
             <<"f", "r", "o", "m">>,
             <<"r", "e", "t", "u", "r", "n">>,
             <<"i", "f">>,
             <<"e", "l", "s", "e">>,
             <<"e", "l", "i", "f">>,
             <<"f", "o", "r">>,
             <<"w", "h", "i", "l", "e">>,
             <<"i", "n">>,
             <<"a", "n", "d">>,
             <<"o", "r">>,
             <<"n", "o", "t">>,
             <<"T", "r", "u", "e">>,
             <<"F", "a", "l", "s", "e">>,
             <<"N", "o", "n", "e">>}
      [] lang = <<"j", "a", "v", "a">> ->
            {<<"p", "u", "b", "l", "i", "c">>,
             <<"p", "r", "i", "v", "a", "t", "e">>,
             <<"c", "l", "a", "s", "s">>,
             <<"v", "o", "i", "d">>,
             <<"r", "e", "t", "u", "r", "n">>,
             <<"i", "f">>,
             <<"e", "l", "s", "e">>,
             <<"f", "o", "r">>,
             <<"w", "h", "i", "l", "e">>,
             <<"n", "e", "w">>,
             <<"s", "t", "a", "t", "i", "c">>,
             <<"f", "i", "n", "a", "l">>,
             <<"i", "m", "p", "o", "r", "t">>}
      [] lang = <<"t", "y", "p", "e", "s", "c", "r", "i", "p", "t">> ->
            {<<"c", "o", "n", "s", "t">>,
             <<"l", "e", "t">>,
             <<"v", "a", "r">>,
             <<"f", "u", "n", "c", "t", "i", "o", "n">>,
             <<"r", "e", "t", "u", "r", "n">>,
             <<"i", "f">>,
             <<"e", "l", "s", "e">>,
             <<"f", "o", "r">>,
             <<"w", "h", "i", "l", "e">>,
             <<"c", "l", "a", "s", "s">>,
             <<"n", "e", "w">>,
             <<"i", "m", "p", "o", "r", "t">>,
             <<"e", "x", "p", "o", "r", "t">>,
             <<"f", "r", "o", "m">>,
             <<"i", "n", "t", "e", "r", "f", "a", "c", "e">>,
             <<"t", "y", "p", "e">>,
             <<"a", "s", "y", "n", "c">>,
             <<"a", "w", "a", "i", "t">>}

LineEnd == {NL, "\r"}

\* "...", '...' or BT...BT, without a line end inside
QuotedBy(q) == <<Lit(<<q>>), RunNot({q} \cup LineEnd, 0), Lit(<<q>>)>>

\* /(".*?"|'.*?'|BT.*?BT)/g
StringRules ==
    << Rule(QuotedBy("\""), <<L(<<"<", "s", "p", "a", "n", " ", "c", "l", "a", "s", "s", "=", "\"", "s", "t", "r", "i", "n", "g", "\"", ">", "\"">>), G(1), L(<<"\"", "<", "/", "s", "p", "a", "n", ">">>)>>),
       Rule(QuotedBy("'"), <<L(<<"<", "s", "p", "a", "n", " ", "c", "l", "a", "s", "s", "=", "\"", "s", "t", "r", "i", "n", "g", "\"", ">", "'">>), G(1), L(<<"'", "<", "/", "s", "p", "a", "n", ">">>)>>),
       Rule(QuotedBy(BT), <<L(<<"<", "s", "p", "a", "n", " ", "c", "l", "a", "s", "s", "=", "\"", "s", "t", "r", "i", "n", "g", "\"", ">">> \o <<BT>>), G(1),
                            L(<<BT>> \o <<"<", "/", "s", "p", "a", "n", ">">>)>>) >>

\* the passes of highlightCode after the keyword pass: strings, line
\* comments, block comments, numbers
HighlightRest(s) ==
    LET comment == <<L(<<"<", "s", "p", "a", "n", " ", "c", "l", "a", "s", "s", "=", "\"", "c", "o", "m", "m", "e", "n", "t", "\"", ">", "<", "/", "s", "p", "a", "n", ">">>)>>
    IN  ReplaceWordsFrom(
            Replace(Replace(ReplaceFrom(s, 0, StringRules),
                            <<Lit(<<"/", "/">>), RunNot(LineEnd, 0)>>, comment),
                    <<Lit(<<"/", "*">>), Until(<<"*", "/">>)>>, comment),
            0, {}, TRUE, <<"<", "s", "p", "a", "n", " ", "c", "l", "a", "s", "s", "=", "\"", "n", "u", "m", "b", "e", "r", "\"", ">">>, <<"<", "/", "s", "p", "a", "n", ">">>)

\* highlightCode: the string it returns, or the TypeError of calling join on
\* an inherited member
highlightCode(code, lang) ==
    IF lang \in InheritedKeys THEN [throws |-> TRUE, html |-> <<>>]
    ELSE IF lang \in OwnKeys
    THEN [throws |-> FALSE,
          html |-> HighlightRest(
                      ReplaceWordsFrom(escapeHtml(code), 0, KeywordsOf(lang), FALSE,
                                       <<"<", "s", "p", "a", "n", " ", "c", "l", "a", "s", "s", "=", "\"", "k", "e", "y", "w", "o", "r", "d", "\"", ">">>, <<"<", "/", "s", "p", "a", "n", ">">>))]
    ELSE [throws |-> FALSE, html |-> HighlightRest(escapeHtml(code))]

\* renderBlockquote, one line: q is [h, currentQuote, level]
QuoteLine(q, line) ==
    LET n == CountLeading(line, {">"})
        a == IF n < Len(line) /\ line[n + 1] \in Space THEN n + 1 ELSE n
        matches == \A k \in (a + 1)..Len(line) : line[k] \notin LineEnd
        nest == matches /\ n + 1 > q.level
        h1 == IF nest
              THEN append(New(q.h, Elem("blockquote")), q.currentQuote, Len(q.h) + 1)
              ELSE q.h
        cur == IF nest THEN Len(h1) ELSE q.currentQuote
        p == [Elem("p") EXCEPT !.html = IF matches THEN Drop(line, a) ELSE line]
    IN  [h |-> append(New(h1, p), cur, Len(h1) + 1),
         currentQuote |-> cur,
         level |-> IF nest THEN n + 1 ELSE q.level]

RECURSIVE QuoteLinesFrom(_, _, _)
QuoteLinesFrom(q, ls, k) ==
    IF k > Len(ls) THEN q ELSE QuoteLinesFrom(QuoteLine(q, ls[k]), ls, k + 1)

\* renderBlockquote: the heap with the quote's elements; the quote is
\* element Len(h) + 1
renderBlockquote(h, content, level) ==
    QuoteLinesFrom([h |-> New(h, Elem("blockquote")), currentQuote |-> Len(h) + 1,
                    level |-> level],
                   Split(content, NL), 1).h

\* node.align && node.align[i], "" when falsy
AlignAt(align, c) == IF c <= Len(align) THEN align[c] ELSE ""

\* row.forEach: the cells from the c-th on, appended to the row element tr
RECURSIVE CellsFrom(_, _, _, _, _, _)
CellsFrom(h, tr, tag, cells, align, c) ==
    IF c > Len(cells) THEN h
    ELSE CellsFrom(
            append(New(h, [Elem(tag) EXCEPT !.align = AlignAt(align, c), !.html = cells[c]]),
                   tr, Len(h) + 1),
            tr, tag, cells, align, c + 1)

\* node.rows.forEach: the rows from the r-th on, appended to tbody
RECURSIVE RowsFrom(_, _, _, _, _)
RowsFrom(h, tbody, rows, align, r) ==
    IF r > Len(rows) THEN h
    ELSE RowsFrom(
            CellsFrom(append(New(h, Elem("tr")), tbody, Len(h) + 1),
                      Len(h) + 1, "td", rows[r], align, 1),
            tbody, rows, align, r + 1)

TableHead(h, table, node) ==
    IF Len(node.headers) > 0
    THEN CellsFrom(
            append(append(New(New(h, Elem("thead")), Elem("tr")), Len(h) + 1, Len(h) + 2),
                   table, Len(h) + 1),
            Len(h) + 2, "th", node.headers, node.align, 1)
    ELSE h

TableBody(h, table, node) ==
    IF Len(node.rows) > 0
    THEN RowsFrom(append(New(h, Elem("tbody")), table, Len(h) + 1),
                  Len(h) + 1, node.rows, node.align, 1)
    ELSE h

\* renderTable: the heap with the table's elements; the table is element
\* Len(h) + 1
renderTable(h, node) ==
    TableBody(TableHead(New(h, Elem("table")), Len(h) + 1, node), Len(h) + 1, node)

HTag(level) == <<"h1", "h2", "h3", "h4", "h5", "h6">>[level]

\* translateNode: the heap with the elements it creates, the element it
\* returns (0 for null), and whether it throws
translateNode(h, node) ==
    CASE node.type = "HEADER" ->
            [throws |-> FALSE, el |-> Len(h) + 1,
             h |-> New(h, [Elem(HTag(node.level)) EXCEPT !.html = ValueOrEmpty(node.value)])]
      [] node.type = "HR" ->
            [throws |-> FALSE, el |-> Len(h) + 1, h |-> New(h, Elem("hr"))]
      [] node.type = "CODE_FENCE" ->
            [throws |-> highlightCode(ValueOrEmpty(node.value), ValueOrEmpty(node.lang)).throws,
             el |-> Len(h) + 1,
             h |-> append(
                     New(New(h, Elem("pre")),
                         [Elem("code") EXCEPT
                            !.cls = IF ValueOrEmpty(node.lang) # <<>>
                                    THEN <<"l", "a", "n", "g", "u", "a", "g", "e", "-">> \o node.lang ELSE <<>>,
                            !.html = highlightCode(ValueOrEmpty(node.value),
                                                   ValueOrEmpty(node.lang)).html]),
                     Len(h) + 1, Len(h) + 2)]
      [] node.type = "BLOCKQUOTE" ->
            [throws |-> FALSE, el |-> Len(h) + 1,
             h |-> renderBlockquote(h, ValueOrEmpty(node.value),
                                    IF node.level \in {NoLevel, 0} THEN 1 ELSE node.level)]
      [] node.type = "TABLE" ->
            [throws |-> FALSE, el |-> Len(h) + 1, h |-> renderTable(h, node)]
      [] node.type = "PARAGRAPH" ->
            [throws |-> FALSE, el |-> Len(h) + 1,
             h |-> New(h, [Elem("p") EXCEPT !.html = ValueOrEmpty(node.value)])]
      [] OTHER -> [throws |-> FALSE, el |-> 0, h |-> h]

\* the pop loops had they emptied listStack
PopAll(stack, n) == <<>>

\* pop while listStack.length > n
PopTo(stack, n) == IF Len(stack) > n THEN Take(stack, n) ELSE stack

ListTag(node) == IF node.listType = "ol" THEN "ol" ELSE "ul"

\* translate, lines 22-46: a list is opened when none is current or the
\* current one is of the other kind
OpenList(t, node, level) ==
    LET stack == PopTo(t.listStack, level)
        h1 == New(t.h, Elem(ListTag(node)))
        newList == Len(h1)
        lastItem == IF Len(stack) > 0 THEN lastChild(h1, stack[Len(stack)]) ELSE 0
        h2 == IF Len(stack) > 0
              THEN (IF lastItem # 0 THEN append(h1, lastItem, newList) ELSE h1)
              ELSE append(h1, 1, newList)
    IN  IF t.currentList = 0 \/ node.listType # t.h[t.currentList].tag
        THEN [t EXCEPT !.h = h2, !.currentList = newList,
                       !.listStack = Append(stack, newList), !.currentListLevel = level]
        ELSE t

\* translate, lines 48-64: a sublist is opened for a deeper item, lists are
\* popped for a shallower one
Relevel(t, node, level) ==
    LET h1 == New(t.h, Elem(ListTag(node)))
        subList == Len(h1)
        lastItem == lastChild(h1, t.currentList)
        stack == PopTo(t.listStack, level + 1)
    IN  IF level > t.currentListLevel
        THEN [t EXCEPT !.h = IF lastItem # 0 THEN append(h1, lastItem, subList) ELSE h1,
                       !.currentList = subList,
                       !.listStack = Append(t.listStack, subList),
                       !.currentListLevel = level]
        ELSE IF level < t.currentListLevel
        THEN [t EXCEPT !.listStack = stack,
                       !.currentList = IF Len(stack) > 0 THEN stack[Len(stack)] ELSE 0,
                       !.currentListLevel = level]
        ELSE t

\* translate, lines 66-81: the li, with a checkbox and a span for a task
AddItem(t, node) ==
    LET li == Len(t.h) + 1
        h1 == IF node.checked # "undefined"
              THEN append(append(
                      New(New(New(t.h, Elem("li")),
                              [Elem("input") EXCEPT !.type = "checkbox",
                                                    !.checked = (node.checked = "true")]),
                          [Elem("span") EXCEPT !.html = ValueOrEmpty(node.value)]),
                      li, li + 1), li, li + 2)
              ELSE New(t.h, [Elem("li") EXCEPT !.html = ValueOrEmpty(node.value)])
    IN  [t EXCEPT !.h = IF t.currentList # 0 THEN append(h1, t.currentList, li) ELSE h1]

\* node.level || 0
LevelOr0(node) == IF node.level = NoLevel THEN 0 ELSE node.level

\* translate, lines 83-90: any other node closes the lists
AddBlock(t, r) ==
    [h |-> IF r.el # 0 /\ ~r.throws THEN append(r.h, 1, r.el) ELSE r.h,
     currentList |-> 0, currentListLevel |-> -1, listStack |-> <<>>,
     threw |-> r.throws]

\* translate, one iteration of the loop
TranslateStep(t, node) ==
    IF node.type = "LIST_ITEM"
    THEN AddItem(Relevel(OpenList(t, node, LevelOr0(node)), node, LevelOr0(node)), node)
    ELSE AddBlock(t, translateNode(t.h, node))

\* the loop of translate from the k-th node on; an exception ends it
RECURSIVE TranslateFrom(_, _, _)
TranslateFrom(t, nodes, k) ==
    IF k > Len(nodes) \/ t.threw THEN t
    ELSE TranslateFrom(TranslateStep(t, nodes[k]), nodes, k + 1)

\* the element tree below a reference
RECURSIVE Tree(_, _)
Tree(h, id) ==
    [tag |-> h[id].tag, cls |-> h[id].cls, type |-> h[id].type,
     checked |-> h[id].checked, align |-> h[id].align, html |-> h[id].html,
     kids |-> [k \in 1..Len(h[id].kids) |-> Tree(h, h[id].kids[k])]]

\* translate, lines 12-16: the container and the locals before the loop
TranslateStart ==
    [h |-> <<[Elem("div") EXCEPT !.cls = <<"m", "a", "r", "k", "d", "o", "w", "n", "-", "c", "o", "n", "t", "e", "n", "t">>]>>,
     currentList |-> 0, currentListLevel |-> -1, listStack |-> <<>>,
     threw |-> FALSE]

\* the container and the locals of translate when its loop ends
TranslateEnd(nodes) == TranslateFrom(TranslateStart, nodes, 1)

\* new Translator(nodes).translate(): the container it returns, unless it throws
translate(nodes) ==
    [throws |-> TranslateEnd(nodes).threw, tree |-> Tree(TranslateEnd(nodes).h, 1)]

-----------------------------------------------------------------------------
(* main.ts: render() and the input listener *)

\* preview.empty()
empty(children) == <<>>

\* render(), lines 92-101: the children of the preview when it returns; an
\* exception of translate leaves render before the preview is touched
render(text, children) ==
    IF translate(parse(tokenize(text))).throws THEN children
    ELSE Append(empty(children), translate(parse(tokenize(text))).tree)

-----------------------------------------------------------------------------
(* The page of main.ts as a state machine: render() runs once when the     *)
(* module is loaded and again on every input event of the editor.          *)

\* the longest document typed into the editor, in lines, beside the scenarios
MaxDomLines == 2

\* how many times render() runs before the model stops following the page
MaxRenders == 2

DomLines ==
    { <<"#", " ", "a">>,
      <<"-", " ", "a">>,
      <<" ", " ", "-", " ", "b">>,
      <<"1", ".", " ", "c">>,
      <<"-", " ", "[", "x", "]", " ", "d">>,
      <<">", " ", "q">>,
      <<"*", "e", "*", " ">> \o <<BT, "f", BT>>,
      <<BT, BT, BT>> \o <<"j", "a", "v", "a">>,
      <<"i", "f", " ", "1">>,
      <<BT, BT, BT>> \o <<"c", "o", "n", "s", "t", "r", "u", "c", "t", "o", "r">> }

\* a table with an alignment row; a table whose alignment row has fewer
\* columns than its header and whose data row has more; a list that goes two
\* levels down and back; a quote; a quote that goes one level down and back;
\* emphasis markers inside a code span; a fence in a language without
\* keywords; a heading marker with nothing after it
DomScenarios ==
    { << <<"|", "h", "|", "k", "|">>, <<"|", ":", "-", ":", "|", "-", ":", "|">>, <<"|", "c", "|", "d", "|">> >>,
      << <<"|", "h", "|", "k", "|">>, <<"|", "-", "|">>, <<"|", "c", "|", "d", "|", "e", "|">> >>,
      << <<BT>> \o <<"*", "a", "*">> \o <<BT>> >>,
      << <<BT, BT, BT>> \o <<"c">>, <<"i", "f", " ", "1">> >>,
      << <<"-", " ", "a">>, <<" ", " ", " ", " ", "-", " ", "b">>, <<"-", " ", "c">> >>,
      << <<">", " ", "q">>, <<">", ">", " ", "r">>, <<"p">> >>,
      << <<">", " ", "a">>, <<">", " ", ">", " ", "b">>, <<">", " ", "c">> >>,
      << <<"#", " ">> >>,
      << >> }

DomTexts ==
    {Join(d, NL) : d \in UNION {[1..n -> DomLines] : n \in 1..MaxDomLines}
                         \cup DomScenarios}

\* the page before the first render(): the textarea holds the sample text md
\* of main.ts, for which any document of DomTexts stands; the preview is empty
RenderInit ==
    /\ editor \in DomTexts
    /\ preview = <<>>
    /\ renders = 0
    /\ IdleFn /\ IdleInline /\ IdleClass /\ IdleTr

\* main.ts line 106: the call of render() when the module is loaded
RenderOnLoad ==
    /\ renders = 0
    /\ preview' = render(editor, preview)
    /\ renders' = renders + 1
    /\ UNCHANGED <<editor, fnVars, inlVars, clsVars, trVars>>

\* main.ts line 104: the user changes the text, the input event calls render()
EditInput ==
    /\ renders >= 1
    /\ renders < MaxRenders
    /\ \E text \in DomTexts :
        /\ editor' = text
        /\ preview' = render(text, preview)
    /\ renders' = renders + 1
    /\ UNCHANGED <<fnVars, inlVars, clsVars, trVars>>

RenderNext == RenderOnLoad \/ EditInput

SpecRender == RenderInit /\ [][RenderNext]_vars

-----------------------------------------------------------------------------
(* Claims about render() *)

\* C9: once render() has run, whatever edits and renders came before, the
\* preview holds what one render() of the editor's current text gives on a
\* fresh page, whose preview is empty.
C9_PreviewIsFreshRenderOfEditor ==
    renders >= 1 => preview = render(editor, <<>>)

-----------------------------------------------------------------------------
(* new Translator(ast).translate() as a state machine over lists: one       *)
(* action per path of an iteration of its loop, then the return.            *)

\* the longest list of nodes given to the Translator
MaxNodes == 3

\* the deepest level of a list item given to the Translator
MaxLevel == 2

\* what a node of the input is: a list item of a kind at a level, a task
\* item, or a paragraph
NodeKinds ==
    {[type |-> "LIST_ITEM", listType |-> k, level |-> l, checked |-> "undefined"] :
        k \in {"ul", "ol"}, l \in 0..MaxLevel}
    \cup {[type |-> "LIST_ITEM", listType |-> "ul", level |-> 0, checked |-> "true"],
          [type |-> "PARAGRAPH", listType |-> "undefined", level |-> NoLevel,
           checked |-> "undefined"]}

\* the node at position n of the input, its text being the n-th letter
NodeAt(kind, n) ==
    ASTNode(kind.type, <<Letters[n]>>, kind.level, Undefined, kind.checked,
            kind.listType, <<>>, <<>>, <<>>)

\* the lists of nodes given to the Translator
AstInputs ==
    UNION {{[n \in 1..m |-> NodeAt(kinds[n], n)] : kinds \in [1..m -> NodeKinds]} :
              m \in 0..MaxNodes}

TranslateInit ==
    /\ tnodes \in AstInputs
    /\ tdone = 0
    /\ tloc = TranslateStart
    /\ lis = <<>>
    /\ container = <<>>
    /\ tpc = "loop"
    /\ IdleFn /\ IdleInline /\ IdleClass /\ IdleDom

\* the node the loop takes next
NextNode == tnodes[tdone + 1]

\* the li the iteration makes for a list item: the next element after the
\* lists it opens
ItemOf(t, node) ==
    Len(Relevel(OpenList(t, node, LevelOr0(node)), node, LevelOr0(node)).h) + 1

\* one iteration of "for (const node of this.ast)"
TranslateIteration ==
    /\ tpc = "loop"
    /\ tdone < Len(tnodes)
    /\ ~tloc.threw
    /\ tloc' = TranslateStep(tloc, NextNode)
    /\ tdone' = tdone + 1
    /\ lis' = IF NextNode.type = "LIST_ITEM"
              THEN Append(lis, ItemOf(tloc, NextNode)) ELSE lis
    /\ UNCHANGED <<tnodes, container, tpc, fnVars, inlVars, clsVars, domVars>>

\* the condition of line 22: no list is current, or the current one is of
\* the other kind
OpensList ==
    /\ tdone < Len(tnodes)
    /\ NextNode.type = "LIST_ITEM"
    /\ IF tloc.currentList = 0 THEN TRUE
       ELSE NextNode.listType # tloc.h[tloc.currentList].tag

KeepsList ==
    /\ tdone < Len(tnodes)
    /\ NextNode.type = "LIST_ITEM"
    /\ ~OpensList

TrOpenList ==
    /\ OpensList
    /\ TranslateIteration

TrSubList ==
    /\ KeepsList /\ LevelOr0(NextNode) > tloc.currentListLevel
    /\ TranslateIteration

TrPopList ==
    /\ KeepsList /\ LevelOr0(NextNode) < tloc.currentListLevel
    /\ TranslateIteration

TrSameList ==
    /\ KeepsList /\ LevelOr0(NextNode) = tloc.currentListLevel
    /\ TranslateIteration

TrBlock ==
    /\ tdone < Len(tnodes) /\ NextNode.type # "LIST_ITEM"
    /\ TranslateIteration

\* the loop ends and translate returns the container
TrReturn ==
    /\ tpc = "loop"
    /\ tdone >= Len(tnodes)
    /\ ~tloc.threw
    /\ container' = Tree(tloc.h, 1)
    /\ tpc' = "done"
    /\ UNCHANGED <<tnodes, tdone, tloc, lis, fnVars, inlVars, clsVars, domVars>>

TranslateNext ==
    \/ TrOpenList \/ TrSubList \/ TrPopList \/ TrSameList \/ TrBlock \/ TrReturn

SpecTranslate == TranslateInit /\ [][TranslateNext]_vars

-----------------------------------------------------------------------------
(* Properties of Lexer.parseTable, checked under SpecClass *)

\* the fields of a table line: the line trimmed and split on "|", each field
\* trimmed
FieldsOf(line) ==
    [m \in 1..Len(Split(Trim(line), "|")) |-> Trim(Split(Trim(line), "|")[m])]

\* the fields of a table line between its bars: without the empty first and
\* last fields that the boundary bars create
FieldsBetweenBars(line) ==
    LET f == FieldsOf(line)
        a == IF Len(f) >= 1 /\ f[1] = <<>> THEN 2 ELSE 1
        b == IF Len(f) >= 2 /\ f[Len(f)] = <<>> THEN Len(f) - 1 ELSE Len(f)
    IN  [m \in 1..(b - a + 1) |-> f[a + m - 1]]

\* the number of lines the k-th token consumed
LinesOf(k) == spans[k].next - spans[k].from

\* the k-th token is a table that consumed an alignment row: a line beside
\* its header and its data rows
AlignRowConsumed(k) ==
    /\ ctokens[k].type = "TABLE"
    /\ LinesOf(k) = Len(ctokens[k].rows) + 2

\* the line of the r-th data row of the table that is the k-th token
RowLine(k, r) == clines[spans[k].next - Len(ctokens[k].rows) + r]

\* C11: the cells of the header and of every data row of a table are the
\* fields of the line between its boundary bars, trimmed; an empty field in
\* the middle is kept, so that cell i belongs to column i.
C11_CellsAreTheFieldsBetweenBars ==
    \A k \in 1..Len(ctokens) :
        ctokens[k].type = "TABLE" =>
            /\ ctokens[k].headers = FieldsBetweenBars(clines[spans[k].from + 1])
            /\ \A r \in 1..Len(ctokens[k].rows) :
                  ctokens[k].rows[r] = FieldsBetweenBars(RowLine(k, r))

\* center for a colon on both sides, right for a colon at the end only, left
\* otherwise
ColonAlign(cell) ==
    IF cell[1] = ":" /\ cell[Len(cell)] = ":" THEN "center"
    ELSE IF cell[Len(cell)] = ":" THEN "right"
    ELSE "left"

\* the cells of an alignment row: its fields that are not blank
AlignCells(line) == SelectSeq(FieldsOf(line), LAMBDA c : c # <<>>)

-----------------------------------------------------------------------------
(* Properties of the paragraphs and the fences of lexer, checked under SpecFn *)

\* the cursor after the iteration that pushed the k-th token
CursorAfter(k) == IF k < Len(tokens) THEN tokens[k + 1].line ELSE i

\* C15: every PARAGRAPH token covers at least one line, every line it covers
\* would on its own be a paragraph, and it ends at the end of the text or
\* before a line that on its own would be a token of another kind.
C15_ParagraphIsMaximalRun ==
    \A k \in 1..Len(tokens) :
        tokens[k].type = "PARAGRAPH" =>
            /\ CursorAfter(k) > tokens[k].line
            /\ \A m \in (tokens[k].line + 1)..CursorAfter(k) :
                  RuleOf(lines[m]) = "PARAGRAPH"
            /\ CursorAfter(k) < Len(lines) =>
                  RuleOf(lines[CursorAfter(k) + 1]) # "PARAGRAPH"

\* the lines after the fence start of the k-th token that start with three
\* backticks, by their number in the text
ClosingLines(k) ==
    {c \in (tokens[k].line + 2)..Len(lines) : StartsFence(lines[c])}

\* the number of the line that ends the fence of the k-th token: the first
\* closing line, or one past the text
FenceEnd(k) ==
    IF ClosingLines(k) # {} THEN Min(ClosingLines(k)) ELSE Len(lines) + 1

\* the language of a fence start: what follows the backticks, without the
\* white space at the end of the line
LangOf(raw) ==
    IF Trim(Drop(raw, 3)) = <<>> THEN Undefined ELSE Trim(Drop(raw, 3))

CodeFences == SelectSeq(tokens, LAMBDA t : t.type = "CODE_FENCE")

CodeNodes == SelectSeq(ast, LAMBDA n : n.type = "CODE")

\* C16: the token of a fence start holds the following lines joined by
\* newlines, up to the first later line that starts with three backticks or
\* to the end of the text, and the language of the fence start; the closing
\* line is consumed with it; parseTokensToAST makes one CODE node of each
\* such token, with the same language and text.
C16_FenceTokenAndCodeNode ==
    /\ \A k \in 1..Len(tokens) :
          tokens[k].type = "CODE_FENCE" =>
              /\ tokens[k].raw =
                    Join(SubSeq(lines, tokens[k].line + 2, FenceEnd(k) - 1), NL)
              /\ tokens[k].lang = LangOf(lines[tokens[k].line + 1])
              /\ CursorAfter(k) = Min({FenceEnd(k), Len(lines)})
    /\ pc = "done" =>
          /\ Len(CodeNodes) = Len(CodeFences)
          /\ \A n \in 1..Len(CodeNodes) :
                /\ CodeNodes[n].lang = CodeFences[n].lang
                /\ CodeNodes[n].code = CodeFences[n].raw

\* a fence in a language, closed by a line that starts with three backticks
\* and goes on, lexed and parsed
C16_Witness ==
    /\ pc = "done"
    /\ Len(tokens) = 1
    /\ tokens[1].type = "CODE_FENCE"
    /\ tokens[1].lang = <<"j", "s">>
    /\ tokens[1].raw # <<>>
    /\ Len(lines) = 3
    /\ ~FenceMatch(lines[3])
    /\ Len(ast) = 1 /\ ast[1].type = "CODE"

-----------------------------------------------------------------------------
(* Properties of parseInline, checked under SpecInline *)

\* what stands between the first two and the last two characters of s
Interior(s) == SubSeq(s, 3, Len(s) - 2)

\* s is a strong span in asterisks whose interior holds one emphasis span in
\* asterisks, around text without delimiters
StrongAroundEmphasis(s) ==
    /\ Len(s) >= 7
    /\ Take(s, 2) = <<"*", "*">>
    /\ Drop(s, Len(s) - 2) = <<"*", "*">>
    /\ \E a, b \in 1..Len(Interior(s)) :
          /\ b > a + 1
          /\ \A m \in 1..Len(Interior(s)) :
                IF m \in {a, b} THEN Interior(s)[m] = "*"
                ELSE Interior(s)[m] \notin InlineAlphabet \ {"a"}

\* C19: a strong span in two asterisks whose interior holds an emphasis span
\* in one asterisk parses to a single STRONG node, whose children are the
\* inline parse of the interior.
C19_StrongHoldsParsedInterior ==
    (ipc = "done" /\ StrongAroundEmphasis(src)) =>
        /\ Len(inl) = 1
        /\ inl[1].type = "STRONG"
        /\ inl[1].children = parseInline(Interior(src))

-----------------------------------------------------------------------------
(* Properties of Lexer.tokenizeLine and Lexer.parseCodeFence, checked under *)
(* SpecClass                                                                *)

\* three or more occurrences of one character among "-", "_", "*", with
\* nothing but spaces between them
RuleLine(line) ==
    /\ line # <<>>
    /\ line[1] \in {"-", "_", "*"}
    /\ line[Len(line)] = line[1]
    /\ \A k \in 1..Len(line) : line[k] \in {line[1], " "}
    /\ Len(SelectSeq(line, LAMBDA ch : ch = line[1])) >= 3

\* C14: a line of three or more occurrences of the same character among
\* "-", "_", "*", optionally separated by spaces, handed to tokenizeLine
\* gives a horizontal rule, never a list item or a paragraph.
C14_RuleLineIsHorizontalRule ==
    \A k \in 1..Len(ctokens) :
        RuleLine(clines[spans[k].from + 1]) => ctokens[k].type = "HR"

\* the lines after the opening fence of the k-th token that start with three
\* backticks, by their number in the text
LaterFences(k) ==
    {c \in (spans[k].from + 2)..Len(clines) : StartsFence(clines[c])}

\* C17: the value of a CODE_FENCE token is the text of the lines after its
\* opening fence up to the first later line that starts with three
\* backticks, whatever follows them, letter for letter, and the block ends
\* with that line.
C17_FenceEndsAtFirstFenceLine ==
    \A k \in 1..Len(ctokens) :
        (ctokens[k].type = "CODE_FENCE" /\ LaterFences(k) # {}) =>
            /\ ctokens[k].value =
                  Join(SubSeq(clines, spans[k].from + 2, Min(LaterFences(k)) - 1), NL)
            /\ spans[k].next = Min(LaterFences(k))

-----------------------------------------------------------------------------
(* Properties of the rendered page, checked under SpecRender *)

\* the elements of a tree: its root and the elements below it
RECURSIVE ElementsOf(_)
ElementsOf(tree) ==
    {tree} \cup UNION {ElementsOf(tree.kids[k]) : k \in 1..Len(tree.kids)}

\* the elements of the preview
PreviewElements == UNION {ElementsOf(preview[k]) : k \in 1..Len(preview)}

\* C13: every header cell and every data cell of a rendered table carries a
\* text-align style, also in a row with more cells than the header and under
\* an alignment row with fewer columns than the header.
C13_EveryCellCarriesTextAlign ==
    \A e \in PreviewElements :
        e.tag \in {"th", "td"} => e.align \in {"left", "center", "right"}

\* p occurs in s
Occurs(s, p) == \E k \in 0..(Len(s) - Len(p)) : StartsWithAt(s, p, k)

\* the contents of the code spans of an HTML string: what stands between a
\* <code> and the first </code> after it
CodeContents(html) ==
    {SubSeq(html, a + 7, b) :
        <<a, b>> \in {w \in (0..Len(html)) \X (0..Len(html)) :
            /\ StartsWithAt(html, <<"<", "c", "o", "d", "e", ">">>, w[1])
            /\ w[2] >= w[1] + 6
            /\ StartsWithAt(html, <<"<", "/", "c", "o", "d", "e", ">">>, w[2])
            /\ \A m \in (w[1] + 6)..(w[2] - 1) : ~StartsWithAt(html, <<"<", "/", "c", "o", "d", "e", ">">>, m)}}

\* C18: the content of every code span of the page rendered from the
\* editor's text is the text that stands between a pair of backticks in the
\* source, letter for letter: no other inline rule has rewritten it.
C18_CodeSpanIsLiteral ==
    renders = 1 =>
        \A e \in PreviewElements :
            \A x \in CodeContents(e.html) : Occurs(editor, <<BT>> \o x \o <<BT>>)

\* the class of the code element of a fence in a language that has keywords
HighlightedClasses == {<<"l", "a", "n", "g", "u", "a", "g", "e", "-">> \o lang : lang \in OwnKeys}

\* C20: the code of a fence in a language other than javascript, python,
\* java and typescript, or in no language, is rendered without any keyword,
\* string, number or comment span.
C20_OnlyKnownLanguagesAreHighlighted ==
    \A e \in PreviewElements :
        (e.tag = "code" /\ e.cls \notin HighlightedClasses) =>
            ~Occurs(e.html, <<"<", "s", "p", "a", "n">>)

-----------------------------------------------------------------------------
(* The empty input in both pipelines, checked under SpecFn *)

\* C21: the empty string gives a tree without nodes and no error in both
\* pipelines: compileMarkdownToHtml returns a root without children, and
\* Lexer, Parser and Translator return a container without children.
C21_EmptyInputEmptyTree ==
    input = <<>> =>
        /\ lexer(input).returns
        /\ parseTokensToAST(lexer(input).value).returns
        /\ pc = "compiled" => root = Block("div", <<>>)
        /\ ~translate(parse(tokenize(input))).throws
        /\ translate(parse(tokenize(input))).tree.kids = <<>>

\* compileMarkdownToHtml("") has returned; lexer had pushed the BLANK token
\* of the one empty line
C21_Witness ==
    /\ input = <<>>
    /\ pc = "compiled"
    /\ Len(tokens) = 1
    /\ tokens[1].type = "BLANK"

-----------------------------------------------------------------------------
(* Properties of the lists of Translator.translate, checked under           *)
(* SpecTranslate                                                            *)

\* the element that holds id among its children, 0 when there is none
ParentOf(h, id) ==
    IF \E p \in 1..Len(h) : \E k \in 1..Len(h[p].kids) : h[p].kids[k] = id
    THEN CHOOSE p \in 1..Len(h) : \E k \in 1..Len(h[p].kids) : h[p].kids[k] = id
    ELSE 0

\* how many ul and ol elements enclose the element id
RECURSIVE ListsAbove(_, _)
ListsAbove(h, id) ==
    IF ParentOf(h, id) = 0 THEN 0
    ELSE (IF h[ParentOf(h, id)].tag \in {"ul", "ol"} THEN 1 ELSE 0)
            + ListsAbove(h, ParentOf(h, id))

\* the LIST_ITEM nodes the loop has taken, in the order of the input
ItemsTaken == SelectSeq(SubSeq(tnodes, 1, tdone), LAMBDA n : n.type = "LIST_ITEM")

\* C22: the li of every list item stands at a nesting depth, the number of
\* ul and ol elements that enclose it less one, equal to the level of the
\* item, also when the level rises by more than one or the first item of a
\* run has a level above 0.
C22_ItemDepthIsItsLevel ==
    \A n \in 1..Len(lis) :
        ListsAbove(tloc.h, lis[n]) - 1 = LevelOr0(ItemsTaken[n])

\* the li the iteration that has just run made
NewItem == lis'[Len(lis')]

\* the next node is a list item below the current level, and the list open
\* at its level, the one at that place of listStack, is of its kind
ReturnsToListOfItsKind ==
    /\ tpc = "loop" /\ tdone < Len(tnodes)
    /\ NextNode.type = "LIST_ITEM"
    /\ tloc.currentList # 0
    /\ LevelOr0(NextNode) < tloc.currentListLevel
    /\ Len(tloc.listStack) > LevelOr0(NextNode)
    /\ tloc.h[tloc.listStack[LevelOr0(NextNode) + 1]].tag = NextNode.listType

\* C23: an item below the current level whose level holds an open list of
\* its kind is appended to that list, and no list element is created,
\* whatever the kinds of the deeper lists that are closed.
C23_ShallowerItemJoinsOpenList ==
    [][ReturnsToListOfItsKind =>
          /\ ParentOf(tloc'.h, NewItem) = tloc.listStack[LevelOr0(NextNode) + 1]
          /\ \A e \in (Len(tloc.h) + 1)..Len(tloc'.h) : tloc'.h[e].tag \notin {"ul", "ol"}
       ]_vars

\* the next node is a list item at the current level and of the other kind
ChangesKindAtSameLevel ==
    /\ tpc = "loop" /\ tdone < Len(tnodes)
    /\ NextNode.type = "LIST_ITEM"
    /\ tloc.currentList # 0
    /\ LevelOr0(NextNode) = tloc.currentListLevel
    /\ NextNode.listType # tloc.h[tloc.currentList].tag

\* the next node is a list item at the current level and of the current kind
StaysInList ==
    /\ tpc = "loop" /\ tdone < Len(tnodes)
    /\ NextNode.type = "LIST_ITEM"
    /\ tloc.currentList # 0
    /\ LevelOr0(NextNode) = tloc.currentListLevel
    /\ NextNode.listType = tloc.h[tloc.currentList].tag

\* C24: an item at the level of the current list and of the other kind opens
\* a list of its kind beside the current list, under the same parent, and
\* goes into it; an item of the current kind at that level goes into the
\* current list.
C24_OtherKindOpensSiblingList ==
    [][ /\ ChangesKindAtSameLevel =>
            /\ tloc'.currentList > Len(tloc.h)
            /\ tloc'.h[tloc'.currentList].tag = NextNode.listType
            /\ ParentOf(tloc'.h, tloc'.currentList) = ParentOf(tloc.h, tloc.currentList)
            /\ ParentOf(tloc'.h, NewItem) = tloc'.currentList
        /\ StaysInList =>
            /\ tloc'.currentList = tloc.currentList
            /\ ParentOf(tloc'.h, NewItem) = tloc.currentList
      ]_vars

\* the elements below the given ones in the order of the document
RECURSIVE InDocumentOrder(_, _)
InDocumentOrder(h, ids) ==
    IF ids = <<>> THEN <<>>
    ELSE <<Head(ids)>> \o InDocumentOrder(h, h[Head(ids)].kids \o Tail(ids))

\* the li elements below the container, in the order of the document
ItemsOfContainer(h) == SelectSeq(InDocumentOrder(h, <<1>>), LAMBDA e : h[e].tag = "li")

\* C26: after a list item is taken, listStack is not empty and currentList
\* is its top; every ul and ol made has a parent; the li elements below the
\* container are the ones made for the LIST_ITEM nodes taken, one each, in
\* the order of the input.
C26_EveryItemIsOneAttachedLi ==
    /\ (tdone >= 1 /\ tnodes[tdone].type = "LIST_ITEM") =>
          /\ tloc.listStack # <<>>
          /\ tloc.currentList = tloc.listStack[Len(tloc.listStack)]
    /\ \A e \in 1..Len(tloc.h) :
          tloc.h[e].tag \in {"ul", "ol"} => ParentOf(tloc.h, e) # 0
    /\ Len(lis) = Len(ItemsTaken)
    /\ ItemsOfContainer(tloc.h) = lis
    /\ \A n \in 1..Len(lis) :
          \/ tloc.h[lis[n]].html = ItemsTaken[n].value
          \/ \E k \in 1..Len(tloc.h[lis[n]].kids) :
                tloc.h[tloc.h[lis[n]].kids[k]].html = ItemsTaken[n].value
    /\ tpc = "done" => container = Tree(tloc.h, 1)

\* translate has returned after a list of three items that rose from level
\* 0 to level 2 and fell back to level 0 in the other kind
C26_Witness ==
    /\ tpc = "done"
    /\ Len(tnodes) = 3
    /\ \A n \in 1..3 : tnodes[n].type = "LIST_ITEM"
    /\ tnodes[1].level = 0 /\ tnodes[2].level = 2 /\ tnodes[3].level = 0
    /\ tnodes[3].listType # tnodes[2].listType
    /\ Len(lis) = 3

-----------------------------------------------------------------------------
(* Properties of the rendered page, checked under SpecRender *)

\* the paragraphs of a tree with the number of blockquote elements around
\* each, d of them being around the tree itself
RECURSIVE QuotedParagraphs(_, _)
QuotedParagraphs(tree, d) ==
    (IF tree.tag = "p" /\ d > 0 THEN {<<tree.html, d>>} ELSE {})
        \cup UNION {QuotedParagraphs(tree.kids[k],
                                     IF tree.tag = "blockquote" THEN d + 1 ELSE d) :
                        k \in 1..Len(tree.kids)}

\* every line of the text is a quote line: a marker and a space before the
\* rest, which may begin with more markers
AllQuoteLines(text) ==
    \A n \in 1..Len(Split(text, NL)) : StartsWith(Split(text, NL)[n], <<">", " ">>)

\* the text of a quote line and the depth its markers ask for: one for the
\* marker of the line and one for each marker that leads the rest
QuoteLineAsked(line) ==
    LET rest == Drop(line, 2)
        m == CountLeading(rest, {">"})
        after == Drop(rest, m)
    IN  <<IF after # <<>> /\ Head(after) \in {" ", "\t"} THEN Tail(after) ELSE after,
          1 + m>>

\* C25: every line of a merged blockquote stands in the blockquote element
\* whose nesting depth is one plus the number of markers that still lead the
\* line; a line with fewer markers than the one before it stands in the
\* shallower quote again.
C25_QuoteLineDepthIsMarkerCount ==
    (renders >= 1 /\ editor # <<>> /\ AllQuoteLines(editor)) =>
        UNION {QuotedParagraphs(preview[k], 0) : k \in 1..Len(preview)}
            = {QuoteLineAsked(Split(editor, NL)[n]) : n \in 1..Len(Split(editor, NL))}

\* the tags of the elements of the given trees, in the order of the document
RECURSIVE TagsOf(_)
TagsOf(trees) ==
    IF trees = <<>> THEN <<>>
    ELSE <<Head(trees).tag>> \o TagsOf(Head(trees).kids \o Tail(trees))

\* the elements of the preview that stand for a line of the text: headings,
\* rules, paragraphs and list items
LineElements ==
    SelectSeq(TagsOf(preview),
              LAMBDA tag : tag \in {"h1", "h2", "h3", "h4", "h5", "h6", "hr", "p", "li"})

\* the lines of the editor's text that are not blank
NonBlankLines == SelectSeq(Split(editor, NL), LAMBDA l : Trim(l) # <<>>)

\* no line of the editor's text belongs to a table or a fence
NoTableNoFence ==
    \A n \in 1..Len(Split(editor, NL)) :
        /\ ~StartsFence(Split(editor, NL)[n])
        /\ ~StartsWith(Trim(Split(editor, NL)[n]), <<"|">>)

\* C28: every line that is not blank and stands outside a table or a fence
\* gives an element of the page: no token of the Lexer, the TEXT token of a
\* heading or list marker without content included, is dropped on the way.
C28_EveryLineGivesAnElement ==
    (renders >= 1 /\ NoTableNoFence) => Len(LineElements) >= Len(NonBlankLines)

-----------------------------------------------------------------------------
(* Properties of calling Lexer.tokenize twice, checked under SpecClass *)

\* C27: tokenize() can be called again on the same Lexer: the second call
\* returns the same token sequence as the first.
C27_SecondTokenizeReturnsTheSame ==
    cpc = "again" => again = handed

-----------------------------------------------------------------------------
(* Properties of parseInline, checked under SpecInline *)

\* an iteration of the main loop took a bracket branch and pushed literal text
BracketGaveText ==
    /\ ipc = "loop" /\ ipc' = "loop"
    /\ InlineRule(src, pos) \in {"IMAGE", "LINK"}
    /\ Len(out') = Len(out) + 1
    /\ out'[Len(out')].type = "TEXT"

\* C29: when "[text]" or "![alt]" is not followed by "(", the literal TEXT
\* pushed is exactly the source characters the branch consumed, the closing
\* "]" included.
C29_BracketTextIsWhatWasConsumed ==
    [][BracketGaveText => out'[Len(out')].value = SubSeq(src, pos + 1, pos')]_vars

\* C30: parseInline terminates: every iteration of the main loop moves the
\* cursor forward by at least one character, never past the end, and every
\* string it passes to parseInline is strictly shorter than its own.
C30_EveryIterationConsumes ==
    [][(ipc = "loop" /\ ipc' = "loop")
         => /\ pos' > pos
            /\ pos' <= Len(src)
            /\ \A inner \in RecursiveCalls(src, pos) : Len(inner) < Len(src)]_vars

\* "a*a*" was parsed: the text fallback found a delimiter ahead, read nothing
\* and consumed one character, then the emphasis span parsed its inner "a"
C30_Witness ==
    /\ ipc = "done"
    /\ src = <<"a", "*", "a", "*">>
    /\ ReadUntilSpecial(src, 0) = 0
    /\ RecursiveCalls(src, 1) = {<<"a">>}
    /\ inl = <<TextNode(<<"a">>),
               INode("EM", <<>>, <<TextNode(<<"a">>)>>, Undefined, Undefined)>>

====
